---- MODULE Spec2Model ----
(***************************************************************************)
(* The todo extraction and consolidation tool of raycast-script-commands:  *)
(* the packaged module src/raycast_scripts/get_todos.py (TodoExtractor and *)
(* main) and the root-level script get-todos.py.                           *)
(*                                                                         *)
(* Text is modelled at the level of characters: a string is a sequence of  *)
(* one-character strings, a file's content is one such sequence, and the   *)
(* output file holds the concatenation of the lines format_todos built.    *)
(***************************************************************************)
EXTENDS Integers, Sequences, FiniteSets, TLC

(***************************************************************************)
(* Bounds of the model.                                                    *)
(***************************************************************************)
\* the most entries (files, or directories named like a note) under the root
MaxEntries == 3
\* the longest single line drawn exhaustively for the parser (SpecLines)
MaxLineLen == 6
\* the longest clipboard text drawn exhaustively (SpecClip)
MaxClipLen == 4
\* the most base-1024 digits of a size given to format_file_size (SpecSize)
MaxDigits == 5
\* the most entries under the root in the runs checked for termination
\* (SpecOnceFair)
MaxFairEntries == 2
\* the most records in a list handed to format_todos by itself (SpecFormat)
MaxRecords == 2
\* the highest value of settings.max_retries drawn (SpecRetry)
MaxRetries == 3

(***************************************************************************)
(* Strings.                                                                *)
(***************************************************************************)
\* ord(c) for the characters that occur in folder names
Ord(c) ==
    CASE c = " " -> 32
      [] c = "*" -> 42
      [] c = "." -> 46
      [] c = "L" -> 76
      [] c = "W" -> 87
      [] c = "[" -> 91
      [] c = "]" -> 93
      [] c = "b" -> 98
      [] c = "e" -> 101
      [] c = "f" -> 102
      [] c = "i" -> 105
      [] c = "k" -> 107
      [] c = "n" -> 110
      [] c = "o" -> 111
      [] c = "r" -> 114
      [] c = "s" -> 115
      [] c = "u" -> 117

\* a < b for two str: code point by code point, a proper prefix is smaller
RECURSIVE StrLess(_, _)
StrLess(a, b) ==
    IF b = <<>> THEN FALSE
    ELSE IF a = <<>> THEN TRUE
    ELSE IF Head(a) = Head(b) THEN StrLess(Tail(a), Tail(b))
    ELSE Ord(Head(a)) < Ord(Head(b))

\* s.endswith(suffix)
EndsWith(s, suffix) ==
    /\ Len(s) >= Len(suffix)
    /\ SubSeq(s, Len(s) - Len(suffix) + 1, Len(s)) = suffix

\* sub in s
Contains(s, sub) ==
    \E i \in 1..(Len(s) - Len(sub) + 1) : SubSeq(s, i, i + Len(sub) - 1) = sub

\* the characters str.strip() removes
IsSpace(c) == c \in {" ", "\t", "\n", "\r", "\f"}

\* s.lstrip(): what follows the last character is kept
Strip_leading(s) ==
    LET keep == {i \in 1..Len(s) : ~IsSpace(s[i])}
    IN  IF keep = {} THEN <<>>
        ELSE SubSeq(s, CHOOSE i \in keep : \A j \in keep : i <= j, Len(s))

\* s.strip()
Strip(s) ==
    LET keep == {i \in 1..Len(s) : ~IsSpace(s[i])}
    IN  IF keep = {} THEN <<>>
        ELSE LET lo == CHOOSE i \in keep : \A j \in keep : i <= j
                 hi == CHOOSE i \in keep : \A j \in keep : j <= i
             IN  SubSeq(s, lo, hi)

\* where the line that starts at i ends: at the first line feed from i on,
\* at the end of the text when there is none
RECURSIVE LineEnd(_, _)
LineEnd(text, i) ==
    IF i >= Len(text) \/ text[i] = "\n" THEN i ELSE LineEnd(text, i + 1)

\* file.readlines(): the content cut after every line feed, line feeds kept
RECURSIVE ReadLines(_)
ReadLines(text) ==
    IF text = <<>> THEN <<>>
    ELSE LET k == LineEnd(text, 1)
         IN  <<SubSeq(text, 1, k)>> \o ReadLines(SubSeq(text, k + 1, Len(text)))

\* file.writelines(lines): the strings one after the other, nothing added
RECURSIVE WriteLines(_)
WriteLines(lines) ==
    IF lines = <<>> THEN <<>> ELSE Head(lines) \o WriteLines(Tail(lines))

(***************************************************************************)
(* Program constants.                                                      *)
(***************************************************************************)
MARKDOWN_EXTENSION == <<".", "m", "d">>
TODO_IDENTIFIER == <<"*", " ", "[", " ", "]">>
FILENAME_TODOS == <<"o", "p", "e", "n", "_", "t", "o", "d", "o", "s">> \o MARKDOWN_EXTENSION

(***************************************************************************)
(* Paths.  The root-level script holds paths as strings (os.path); the     *)
(* packaged module holds pathlib paths, modelled by their parts.           *)
(***************************************************************************)
StartsWithSep(s) == s # <<>> /\ Head(s) = "/"

EndsWithSep(s) == s # <<>> /\ s[Len(s)] = "/"

\* posixpath.join(a, b)
os_path_join(a, b) ==
    IF StartsWithSep(b) THEN b
    ELSE IF a = <<>> \/ EndsWithSep(a) THEN a \o b
    ELSE a \o <<"/">> \o b

\* s.rstrip("/")
RECURSIVE RStripSep(_)
RStripSep(s) ==
    IF EndsWithSep(s) THEN RStripSep(SubSeq(s, 1, Len(s) - 1)) ELSE s

\* posixpath.split(p): <<head, tail>>, cut after the last "/"
os_path_split(p) ==
    LET seps == {i \in 1..Len(p) : p[i] = "/"}
        i    == IF seps = {} THEN 0 ELSE CHOOSE k \in seps : \A j \in seps : j <= k
        head == SubSeq(p, 1, i)
        tail == SubSeq(p, i + 1, Len(p))
    IN  <<IF RStripSep(head) = <<>> THEN head ELSE RStripSep(head), tail>>

\* the parts of pathlib.Path(s) for a relative s: cut at "/", "" and "." dropped
RECURSIVE PathParts(_)
PathParts(s) ==
    IF s = <<>> THEN <<>>
    ELSE LET seps == {i \in 1..Len(s) : s[i] = "/"}
             k    == IF seps = {} THEN Len(s) + 1
                     ELSE CHOOSE i \in seps : \A j \in seps : i <= j
             part == SubSeq(s, 1, k - 1)
             rest == SubSeq(s, k + 1, Len(s))
         IN  (IF part \in {<<>>, <<".">>} THEN <<>> ELSE <<part>>) \o PathParts(rest)

\* PurePath.name: the last part, "" when there is none
PathName(parts) == IF parts = <<>> THEN <<>> ELSE parts[Len(parts)]

\* PurePath.parent: the path without its last part
PathParent(parts) == IF parts = <<>> THEN <<>> ELSE SubSeq(parts, 1, Len(parts) - 1)

(***************************************************************************)
(* The file system under the notes root.  An entry lies in the directory   *)
(* dir (names below the root) and has a name; it is a regular file or a    *)
(* directory.  EntryPool lists the places an entry can be at; place        *)
(* OutSlot is <root>/open_todos.md, the file the tool writes.              *)
(***************************************************************************)
Work == <<"W", "o", "r", "k">>

Life == <<"L", "i", "f", "e">>

Sub == <<"s", "u", "b">>

NameA == <<"a">> \o MARKDOWN_EXTENSION

NameB == <<"b">> \o MARKDOWN_EXTENSION

NameC == <<"c">> \o MARKDOWN_EXTENSION

NameD == <<"d">> \o MARKDOWN_EXTENSION

NameMdx == <<"e">> \o MARKDOWN_EXTENSION \o <<"x">>

NameDir == <<"x">> \o MARKDOWN_EXTENSION

EntryPool ==
    << [dir |-> <<>>,          name |-> FILENAME_TODOS, kind |-> "file"],
       [dir |-> <<>>,          name |-> NameA,          kind |-> "file"],
       [dir |-> <<Work>>,      name |-> NameA,          kind |-> "file"],
       [dir |-> <<Work>>,      name |-> NameB,          kind |-> "file"],
       [dir |-> <<Life>>,      name |-> NameC,          kind |-> "file"],
       [dir |-> <<Work, Sub>>, name |-> NameD,          kind |-> "file"],
       [dir |-> <<Work>>,      name |-> FILENAME_TODOS, kind |-> "file"],
       [dir |-> <<Life>>,      name |-> NameMdx,        kind |-> "file"],
       [dir |-> <<Life>>,      name |-> NameDir,        kind |-> "dir"] >>

Slots == 1..Len(EntryPool)

OutSlot == CHOOSE i \in Slots : EntryPool[i].dir = <<>> /\ EntryPool[i].name = FILENAME_TODOS

\* the notes root as the user names it
NotesPaths == {<<"n">>}

\* what a place holds: nothing, a directory, or a file that reads as text,
\* cannot be opened (OSError) or is not UTF-8 (UnicodeDecodeError); Torn is
\* the output file after a write that failed half way: it holds some part
\* of what was being written, which nothing in the program reads
Absent == [st |-> "absent", text |-> <<>>]

IsDir == [st |-> "dir", text |-> <<>>]

Unopenable == [st |-> "oserror", text |-> <<>>]

Undecodable == [st |-> "undecodable", text |-> <<>>]

Torn == [st |-> "torn", text |-> <<>>]

File(text) == [st |-> "ok", text |-> text]

\* "# T\nnone\n": a note without any marker
TextNoMatch == <<"#", " ", "T", "\n", "n", "o", "n", "e", "\n">>

\* "  * [ ] a \n* [x] b\n* [x] d * [ ] e\n- * [ ] c": an indented marker, a
\* checked item, a checked item whose text holds the marker, a marker that
\* is not at the start of its line; no line feed at the end
TextTodos ==
    <<" ", " ", "*", " ", "[", " ", "]", " ", "a", " ", "\n",
      "*", " ", "[", "x", "]", " ", "b", "\n",
      "*", " ", "[", "x", "]", " ", "d", " ", "*", " ", "[", " ", "]", " ", "e", "\n",
      "-", " ", "*", " ", "[", " ", "]", " ", "c">>

\* "* [ ] a\n\t* [ ] a\n* [ ]  b  c \n": the same todo on two lines, the
\* second behind a tab, and a todo with blanks inside and at its end
TextTwice ==
    <<"*", " ", "[", " ", "]", " ", "a", "\n",
      "\t", "*", " ", "[", " ", "]", " ", "a", "\n",
      "*", " ", "[", " ", "]", " ", " ", "b", " ", " ", "c", " ", "\n">>

\* the states of a candidate note
NoteStates == {File(TextNoMatch), File(TextTodos), Unopenable, Undecodable}

\* how the note at a place fails to read when it does: the notes in Work
\* are the ones that may not be UTF-8, the others may be closed to the user
UnreadableAt(i) == IF EntryPool[i].dir = <<Work>> THEN Undecodable ELSE Unopenable

\* the states a place can be in when it holds something
StatesOf(i) ==
    IF EntryPool[i].kind = "dir" THEN {IsDir}
    ELSE IF i = OutSlot THEN {File(TextTodos)}
    ELSE IF EndsWith(EntryPool[i].name, MARKDOWN_EXTENSION)
              /\ EntryPool[i].name # FILENAME_TODOS
         THEN {File(TextNoMatch), File(TextTodos), UnreadableAt(i)}
    ELSE {File(TextTodos)}

IsPrefix(d, e) == Len(d) <= Len(e) /\ SubSeq(e, 1, Len(d)) = d

\* the sequences that list every element of S once
RECURSIVE Orders(_)
Orders(S) ==
    IF S = {} THEN {<<>>}
    ELSE UNION {{<<x>> \o o : o \in Orders(S \ {x})} : x \in S}

\* whether the entry at place i lies in or below the directory d
Below(d, i) == IsPrefix(d, EntryPool[i].dir)

\* the orders in which a top-down walk can meet the entries: the entries of
\* a directory come before those of its subdirectories, and the entries
\* below one directory come one after the other
TopDown(order) ==
    /\ \A i, j \in 1..Len(order) :
          (/\ EntryPool[order[j]].dir # EntryPool[order[i]].dir
           /\ Below(EntryPool[order[j]].dir, order[i])) => j < i
    /\ \A i \in 1..Len(order) :
          \A n \in 1..Len(EntryPool[order[i]].dir) :
             LET d == SubSeq(EntryPool[order[i]].dir, 1, n)
             IN  \A j, k \in 1..Len(order) :
                    (i < j /\ j < k /\ Below(d, order[k])) => Below(d, order[j])

\* the listings of a tree with the entries S
Listings(S) == {o \in Orders(S) : TopDown(o)}

(***************************************************************************)
(* Scanner.  listing is the order in which the operating system lists the  *)
(* entries that exist; each candidate is the place it denotes (slot) and   *)
(* the path the program holds for it.                                      *)
(***************************************************************************)
\* os.path.join(dirpath, dirname) down the directories of os.walk
RECURSIVE WalkDirPath(_, _)
WalkDirPath(path, dir) ==
    IF dir = <<>> THEN path
    ELSE WalkDirPath(os_path_join(path, Head(dir)), Tail(dir))

\* walk_through_notes without the test for the reserved name
RECURSIVE walk_through_notes_unreserved(_, _)
walk_through_notes_unreserved(path, order) ==
    IF order = <<>> THEN <<>>
    ELSE LET e == EntryPool[Head(order)]
         IN  (IF e.kind = "file" /\ EndsWith(e.name, MARKDOWN_EXTENSION)
              THEN <<[slot |-> Head(order),
                      path |-> os_path_join(WalkDirPath(path, e.dir), e.name)]>>
              ELSE <<>>) \o walk_through_notes_unreserved(path, Tail(order))

\* walk_through_notes over os.listdir(path): the root's own files only
RECURSIVE walk_through_notes_toplevel(_, _)
walk_through_notes_toplevel(path, order) ==
    IF order = <<>> THEN <<>>
    ELSE LET e == EntryPool[Head(order)]
         IN  (IF /\ e.kind = "file"
                 /\ e.dir = <<>>
                 /\ EndsWith(e.name, MARKDOWN_EXTENSION)
                 /\ e.name # FILENAME_TODOS
              THEN <<[slot |-> Head(order),
                      path |-> os_path_join(WalkDirPath(path, e.dir), e.name)]>>
              ELSE <<>>) \o walk_through_notes_toplevel(path, Tail(order))

\* get-todos.py walk_through_notes: os.walk hands out the file names of each
\* directory; a name is kept when it ends in .md and is not open_todos.md
RECURSIVE walk_through_notes(_, _)
walk_through_notes(path, order) ==
    IF order = <<>> THEN <<>>
    ELSE LET e == EntryPool[Head(order)]
         IN  (IF /\ e.kind = "file"
                 /\ EndsWith(e.name, MARKDOWN_EXTENSION)
                 /\ e.name # FILENAME_TODOS
              THEN <<[slot |-> Head(order),
                      path |-> os_path_join(WalkDirPath(path, e.dir), e.name)]>>
              ELSE <<>>) \o walk_through_notes(path, Tail(order))

\* TodoExtractor.walk_through_notes: rglob("*.md") hands out every entry,
\* file or directory, whose name matches; open_todos.md is left out
RECURSIVE TodoExtractor_walk_through_notes(_, _)
TodoExtractor_walk_through_notes(notes_parts, order) ==
    IF order = <<>> THEN <<>>
    ELSE LET e == EntryPool[Head(order)]
         IN  (IF /\ EndsWith(e.name, MARKDOWN_EXTENSION)
                 /\ e.name # FILENAME_TODOS
              THEN <<[slot |-> Head(order),
                      path |-> notes_parts \o e.dir \o <<e.name>>]>>
              ELSE <<>>) \o TodoExtractor_walk_through_notes(notes_parts, Tail(order))

(***************************************************************************)
(* Parser.  The result is <<record>> or <<>> (None), and whether the       *)
(* except branch ran.                                                      *)
(***************************************************************************)
\* the comprehension with line.startswith(TODO_IDENTIFIER) for its test
RECURSIVE TodoLines_anchored(_)
TodoLines_anchored(lines) ==
    IF lines = <<>> THEN <<>>
    ELSE (IF Len(Head(lines)) >= Len(TODO_IDENTIFIER)
             /\ SubSeq(Head(lines), 1, Len(TODO_IDENTIFIER)) = TODO_IDENTIFIER
          THEN <<Strip(Head(lines))>> ELSE <<>>)
         \o TodoLines_anchored(Tail(lines))

\* [line.strip() for line in lines if TODO_IDENTIFIER in line]
RECURSIVE TodoLines(_)
TodoLines(lines) ==
    IF lines = <<>> THEN <<>>
    ELSE (IF Contains(Head(lines), TODO_IDENTIFIER) THEN <<Strip(Head(lines))>> ELSE <<>>)
         \o TodoLines(Tail(lines))

\* a read that decodes with errors="replace": only the open can raise
ReadRaises_lenient(data) == data.st \notin {"ok", "undecodable"}

\* open(...) and readlines() raise for a directory, an unreadable file and
\* a file that is not UTF-8
ReadRaises(data) == data.st # "ok"

\* get_todos_from_note without "if todos:", a record for every file read
TodoExtractor_get_todos_from_note_always(note_path, data) ==
    IF ReadRaises(data) THEN [rec |-> <<>>, err |-> TRUE]
    ELSE [rec |-> <<[folder   |-> PathName(PathParent(note_path)),
                     filename |-> PathName(note_path),
                     todos    |-> TodoLines(ReadLines(data.text))]>>,
          err |-> FALSE]

\* TodoExtractor.get_todos_from_note
TodoExtractor_get_todos_from_note(note_path, data) ==
    IF ReadRaises(data) THEN [rec |-> <<>>, err |-> TRUE]
    ELSE LET todos == TodoLines(ReadLines(data.text))
         IN  IF todos # <<>>
             THEN [rec |-> <<[folder   |-> PathName(PathParent(note_path)),
                              filename |-> PathName(note_path),
                              todos    |-> todos]>>,
                   err |-> FALSE]
             ELSE [rec |-> <<>>, err |-> FALSE]

\* get-todos.py get_todos_from_note; absolute_folder, filename and folder
\* are assigned once, before the file is opened
get_todos_from_note(note_path, data) ==
    CHOOSE r \in
       {IF ReadRaises(data) THEN [rec |-> <<>>, err |-> TRUE]
        ELSE LET todos_in_file == TodoLines(ReadLines(data.text))
             IN  IF todos_in_file # <<>>
                 THEN [rec |-> <<[folder   |-> folder,
                                  filename |-> filename,
                                  todos    |-> todos_in_file]>>,
                       err |-> FALSE]
                 ELSE [rec |-> <<>>, err |-> FALSE] :
           folder   \in {os_path_split(absolute_folder)[2] :
                            absolute_folder \in {os_path_split(note_path)[1]}},
           filename \in {os_path_split(note_path)[2]}} : TRUE

(***************************************************************************)
(* Aggregator.                                                             *)
(***************************************************************************)
LF == <<"\n">>

\* todo + "\n" for each todo
RECURSIVE WithLF(_)
WithLF(todos) ==
    IF todos = <<>> THEN <<>> ELSE <<Head(todos) \o LF>> \o WithLF(Tail(todos))

\* the inner loop taken from the last record to the first
RECURSIVE FormatFiles_reversed(_, _)
FormatFiles_reversed(folder, todos) ==
    IF todos = <<>> THEN <<>>
    ELSE FormatFiles_reversed(folder, Tail(todos))
         \o (IF Head(todos).folder = folder
             THEN <<<<"#", "#", " ">> \o Head(todos).filename \o LF>>
                  \o WithLF(Head(todos).todos) \o <<LF>>
             ELSE <<>>)

\* the inner loop without the blank line that closes a file
RECURSIVE FormatFiles_unseparated(_, _)
FormatFiles_unseparated(folder, todos) ==
    IF todos = <<>> THEN <<>>
    ELSE (IF Head(todos).folder = folder
          THEN <<<<"#", "#", " ">> \o Head(todos).filename \o LF>>
               \o WithLF(Head(todos).todos)
          ELSE <<>>) \o FormatFiles_unseparated(folder, Tail(todos))

\* the inner loop of format_todos over the records in arrival order: those
\* of the folder give "## <filename>", their todos and a blank line
RECURSIVE FormatFiles(_, _)
FormatFiles(folder, todos) ==
    IF todos = <<>> THEN <<>>
    ELSE (IF Head(todos).folder = folder
          THEN <<<<"#", "#", " ">> \o Head(todos).filename \o LF>>
               \o WithLF(Head(todos).todos) \o <<LF>>
          ELSE <<>>) \o FormatFiles(folder, Tail(todos))

\* the outer loop without the blank line that closes a folder
RECURSIVE FormatFolders_unclosed(_, _)
FormatFolders_unclosed(folders, todos) ==
    IF folders = <<>> THEN <<>>
    ELSE <<<<"#", " ">> \o Head(folders) \o LF>>
         \o FormatFiles(Head(folders), todos)
         \o FormatFolders_unclosed(Tail(folders), todos)

\* an outer loop over the records: a folder heading in front of each
RECURSIVE FormatFolders_per_record(_, _)
FormatFolders_per_record(folders, todos) ==
    IF todos = <<>> THEN <<>>
    ELSE <<<<"#", " ">> \o Head(todos).folder \o LF>>
         \o FormatFiles(Head(todos).folder, <<Head(todos)>>) \o <<LF>>
         \o FormatFolders_per_record(folders, Tail(todos))

\* the outer loop of format_todos: "# <folder>", the folder's files, and a
\* blank line, for the folders in the order given
RECURSIVE FormatFolders(_, _)
FormatFolders(folders, todos) ==
    IF folders = <<>> THEN <<>>
    ELSE <<<<"#", " ">> \o Head(folders) \o LF>>
         \o FormatFiles(Head(folders), todos) \o <<LF>>
         \o FormatFolders(Tail(folders), todos)

\* {todo.folder for todo in todos}
FolderSet(todos) == {todos[i].folder : i \in 1..Len(todos)}

\* sorted(S) for a set of str
RECURSIVE Sorted(_)
Sorted(S) ==
    IF S = {} THEN <<>>
    ELSE LET m == CHOOSE x \in S : \A y \in S \ {x} : StrLess(x, y)
         IN  <<m>> \o Sorted(S \ {m})

\* TodoExtractor.format_todos: the folders are visited in sorted order
TodoExtractor_format_todos(todos) ==
    IF todos = <<>> THEN <<>>
    ELSE FormatFolders(Sorted(FolderSet(todos)), todos)

\* get-todos.py format_todos: the folders are visited in the iteration order
\* of a set of str, which is the order of their hashes and changes from one
\* process to the next; folders is that order
format_todos(todos, folders) == FormatFolders(folders, todos)

(***************************************************************************)
(* Collecting the records: the loop of get_all_todos / get_todos_from_path *)
(* over what walk_through_notes yields.  The result is the list of         *)
(* records, the places opened and the places whose read raised, in order.  *)
(***************************************************************************)
NoTodos == [todos |-> <<>>, opened |-> <<>>, errors |-> <<>>]

\* a loop that keeps the record found last instead of appending to the list
Collect_replacing(acc, slot, r) ==
    [todos  |-> IF r.rec # <<>> THEN r.rec ELSE acc.todos,
     opened |-> Append(acc.opened, slot),
     errors |-> IF r.err THEN Append(acc.errors, slot) ELSE acc.errors]

Collect(acc, slot, r) ==
    [todos  |-> acc.todos \o r.rec,
     opened |-> Append(acc.opened, slot),
     errors |-> IF r.err THEN Append(acc.errors, slot) ELSE acc.errors]

\* TodoExtractor.get_all_todos: todo_data is the result of the one call of
\* get_todos_from_note for the candidate, next the list after the append
RECURSIVE TodoExtractor_get_all_todos(_, _, _)
TodoExtractor_get_all_todos(cands, f, acc) ==
    IF cands = <<>> THEN acc
    ELSE LET c == Head(cands)
         IN  CHOOSE r \in
                {TodoExtractor_get_all_todos(Tail(cands), f, next) :
                    next \in {Collect(acc, c.slot, todo_data) :
                                 todo_data \in {TodoExtractor_get_todos_from_note(
                                                   c.path, f[c.slot])}}} : TRUE

\* get-todos.py get_todos_from_path: todos_from_one_note is the result of
\* the one call of get_todos_from_note for the candidate
RECURSIVE get_todos_from_path(_, _, _)
get_todos_from_path(cands, f, acc) ==
    IF cands = <<>> THEN acc
    ELSE LET c == Head(cands)
         IN  CHOOSE r \in
                {get_todos_from_path(Tail(cands), f, next) :
                    next \in {Collect(acc, c.slot, todos_from_one_note) :
                                 todos_from_one_note \in {get_todos_from_note(
                                                             c.path, f[c.slot])}}} : TRUE

(***************************************************************************)
(* State.                                                                  *)
(***************************************************************************)
VARIABLES
    impl,        \* "pkg": raycast_scripts.get_todos main; "script": get-todos.py;
                 \* in SpecRetry the function the process calls (Programs)
    notes_path,  \* the argument of the run
    rootKind,    \* what notes_path names: "dir", "file" or "missing"
    fs,          \* what each place of EntryPool holds
    listing,     \* the order in which the system lists the entries that exist
    pc,          \* "start", "scan", "save", "write", "done"; for a utility
                 \* function: "start", "returned", "done" (the process has exited)
    yielded,     \* what walk_through_notes has yielded in this run
    todos,       \* the records collected in this run
    opened,      \* the places whose file the run has opened for reading, in order
    wopens,      \* how often the run has opened open_todos.md for writing
    wresult,     \* what the system answered to that: "none" before it is asked,
                 \* "ok", "refused" (the open raised) or "failed" (a write raised)
    log,         \* the messages of the run, each with its channel
    exit,        \* the exit status, -1 while the run goes on
    run,         \* "first", or "second" for a run that follows a finished one
    before,      \* for the second run: what the first run left
    formatted,   \* formatted_todos of the save function, between format_todos and the write
    cache_dir,   \* whether ~/.cache/raycast-scripts exists (config.Settings makes it)
    clipboard,   \* what pyperclip.paste() gives: a text, None, or an exception
    size_bytes,  \* the argument of format_file_size
    returned,    \* what a utility function returned: <<value>>, <<>> when it did not return
    max_retries, \* settings.max_retries
    calls,       \* how the calls of the command or service went that the process
                 \* has made, in order
    copied       \* the texts handed to pyperclip.copy, in order

\* the state of the utility functions of utils.py
utilVars == <<clipboard, size_bytes, returned, max_retries, calls, copied>>

vars ==
    <<impl, notes_path, rootKind, fs, listing, pc, yielded, todos, opened, wopens, wresult,
      log, exit, run, before, formatted, cache_dir, utilVars>>

Running == 0 - 1

Present(f) == {i \in Slots : f[i].st # "absent"}

Candidates == {i \in Slots : File(TextNoMatch) \in StatesOf(i)}

\* the trees with the entries S, one for each choice of the notes' states
TreesOf(S) ==
    {[i \in Slots |->
        IF i \notin S THEN Absent
        ELSE IF i \in Candidates THEN g[i]
        ELSE CHOOSE d \in StatesOf(i) : TRUE] :
          g \in {h \in [S \cap Candidates -> NoteStates] :
                   \A i \in S \cap Candidates : h[i] \in StatesOf(i)}}

\* the clipboard as pyperclip.paste() finds it: it gives a str, it gives
\* None, or it raises; Unused when no function reads it
ClipText(text) == [st |-> "text", text |-> text]

ClipNone == [st |-> "None", text |-> <<>>]

ClipRaises == [st |-> "raises", text |-> <<>>]

Unused == [st |-> "unused", text |-> <<>>]

\* max_retries: int = Field(default=3), and nothing called or copied yet
RetryIdle ==
    /\ max_retries = 3
    /\ calls = <<>>
    /\ copied = <<>>

\* no utility function is being called
UtilIdle ==
    /\ clipboard = Unused
    /\ size_bytes = <<>>
    /\ returned = <<>>
    /\ RetryIdle

\* a process at its start
RunStart ==
    /\ pc = "start"
    /\ yielded = <<>>
    /\ todos = <<>>
    /\ opened = <<>>
    /\ wopens = 0
    /\ wresult = "none"
    /\ log = <<>>
    /\ exit = Running
    /\ formatted = <<>>

InitRun ==
    /\ RunStart
    /\ cache_dir = FALSE
    /\ UtilIdle

Init ==
    /\ impl \in {"pkg", "script"}
    /\ notes_path \in NotesPaths
    /\ rootKind \in {"dir", "file", "missing"}
    /\ \E S \in SUBSET Slots :
          /\ Cardinality(S \ {OutSlot}) <= MaxEntries
          /\ rootKind # "dir" => S = {}
          /\ listing \in Listings(S)
          /\ fs \in TreesOf(S)
    /\ run = "first"
    /\ before = <<>>
    /\ InitRun

(***************************************************************************)
(* Path validation.                                                        *)
(***************************************************************************)
\* click.Path(exists=True, file_okay=False) of main's argument
ClickPathOk(kind) == kind = "dir"

\* utils.ensure_directory_exists: the failure it reports, "" when none
ensure_directory_exists(kind) ==
    IF kind = "missing" THEN "Directory does not exist"
    ELSE IF kind # "dir" THEN "Path is not a directory"
    ELSE ""

Msg(chan, text, about) == [chan |-> chan, text |-> text, about |-> about]

Finish(status, msg) ==
    /\ pc' = "done"
    /\ exit' = status
    /\ log' = Append(log, msg)

\* main up to extractor = TodoExtractor(notes_path): the import of
\* raycast_scripts.config builds Settings(), which makes the cache directory
\* in the user's home; click checks the argument (a usage error ends the
\* process with status 2), and TodoExtractor.__init__ checks the directory
\* again
main ==
    /\ pc = "start"
    /\ impl = "pkg"
    /\ cache_dir' = TRUE
    /\ IF ~ClickPathOk(rootKind)
       THEN Finish(2, Msg("stderr", "Invalid value for 'NOTES_PATH'", 0))
       ELSE IF ensure_directory_exists(rootKind) # ""
       THEN Finish(1, Msg("stdout", ensure_directory_exists(rootKind), 0))
       ELSE pc' = "scan" /\ UNCHANGED <<exit, log>>
    /\ UNCHANGED <<formatted, utilVars>>
    /\ UNCHANGED <<impl, notes_path, rootKind, fs, listing, yielded, todos, opened, wopens,
                   wresult, run, before>>

\* save_todos_from_notes_in_one_file without its two checks of the path
save_todos_from_notes_in_one_file_unchecked ==
    /\ pc = "start"
    /\ impl = "script"
    /\ pc' = "scan"
    /\ UNCHANGED <<formatted, cache_dir, utilVars>>
    /\ UNCHANGED <<impl, notes_path, rootKind, fs, listing, yielded, todos, opened, wopens,
                   wresult, run, before, exit, log>>

\* save_todos_from_notes_in_one_file up to the call of get_todos_from_path
save_todos_from_notes_in_one_file ==
    /\ pc = "start"
    /\ impl = "script"
    /\ IF rootKind = "missing"
       THEN Finish(1, Msg("stderr", "Path does not exist", 0))
       ELSE IF rootKind # "dir"
       THEN Finish(1, Msg("stderr", "Path is not a directory", 0))
       ELSE pc' = "scan" /\ UNCHANGED <<exit, log>>
    /\ UNCHANGED <<formatted, cache_dir, utilVars>>
    /\ UNCHANGED <<impl, notes_path, rootKind, fs, listing, yielded, todos, opened, wopens,
                   wresult, run, before>>

(***************************************************************************)
(* Scanning and parsing.                                                   *)
(***************************************************************************)
\* print(f"Error reading {note_path}: ...") for each read that raised
RECURSIVE ErrorsReading(_, _)
ErrorsReading(chan, slots) ==
    IF slots = <<>> THEN <<>>
    ELSE <<Msg(chan, "Error reading", Head(slots))>> \o ErrorsReading(chan, Tail(slots))

\* todos = extractor.get_all_todos() in main
main_get_all_todos ==
    /\ pc = "scan"
    /\ impl = "pkg"
    /\ \E cands \in {TodoExtractor_walk_through_notes(PathParts(notes_path), listing)} :
       \E got \in {TodoExtractor_get_all_todos(cands, fs, NoTodos)} :
           /\ yielded' = cands
           /\ todos' = got.todos
           /\ opened' = got.opened
           /\ log' = log \o ErrorsReading("stdout", got.errors)
    /\ pc' = "save"
    /\ UNCHANGED <<formatted, cache_dir, utilVars>>
    /\ UNCHANGED <<impl, notes_path, rootKind, fs, listing, wopens, wresult, exit, run, before>>

\* todos = get_todos_from_path(path) in save_todos_from_notes_in_one_file
script_get_todos_from_path ==
    /\ pc = "scan"
    /\ impl = "script"
    /\ \E cands \in {walk_through_notes(notes_path, listing)} :
       \E got \in {get_todos_from_path(cands, fs, NoTodos)} :
           /\ yielded' = cands
           /\ todos' = got.todos
           /\ opened' = got.opened
           /\ log' = log \o ErrorsReading("stderr", got.errors)
    /\ pc' = "save"
    /\ UNCHANGED <<formatted, cache_dir, utilVars>>
    /\ UNCHANGED <<impl, notes_path, rootKind, fs, listing, wopens, wresult, exit, run, before>>

(***************************************************************************)
(* Writer.  Opening open_todos.md for writing creates or empties it; the   *)
(* system may refuse the open (OSError, the file is left as it was) or     *)
(* fail a write after the open (OSError, the file is left torn).           *)
(***************************************************************************)
\* an except branch that reports the error and returns
SaveErrorStatus_ignored == 1 - 1

\* sys.exit(1) in the except OSError branch of the two save functions
SaveErrorStatus == 1

\* a count of the todo lines in place of the count of the records
RECURSIVE SavedCount_lines(_)
SavedCount_lines(recs) ==
    IF recs = <<>> THEN 0 ELSE Len(Head(recs).todos) + SavedCount_lines(Tail(recs))

\* len(todos) in f"Saved {len(todos)} todo sections to ..."
SavedCount(recs) == Len(recs)

\* the listing once <root>/open_todos.md exists
Listed(order) ==
    IF \E i \in 1..Len(order) : order[i] = OutSlot THEN order ELSE <<OutSlot>> \o order

\* the place of the entry with this directory and name
PlaceOf(dir, name) == CHOOSE i \in Slots : EntryPool[i].dir = dir /\ EntryPool[i].name = name

\* an output file in the first folder instead of the root
output_file_in_folder == PlaceOf(<<Work>>, FILENAME_TODOS)

\* output_file = self.notes_path / FILENAME_TODOS and
\* path_todo_file = os.path.join(path, FILENAME_TODOS): the place they name
output_file == PlaceOf(<<>>, FILENAME_TODOS)

\* open(..., "a"): what the file holds stays
open_w_append(data) == IF data.st = "ok" THEN data.text ELSE <<>>

\* open(..., "w"): what the file holds once it is open, whatever it held
open_w(data) == <<>>

\* the messages of a write: "Saved ..." only when nothing was raised
WriteMessage_cheerful(raised, ok, failed) == ok

\* print_success after the with block, print_error in the except branch
WriteMessage(raised, ok, failed) == IF raised THEN failed ELSE ok

\* with output_file.open("w") as todo_file: todo_file.writelines(lines)
\* ok: the message when the write went through; failed: when OSError was raised
WriteFile(lines, ok, failed) ==
    /\ wopens' = wopens + 1
    /\ \/ /\ wresult' = "ok"
          /\ fs' = [fs EXCEPT ![output_file] =
                       File(open_w(fs[output_file]) \o WriteLines(lines))]
          /\ listing' = Listed(listing)
          /\ Finish(0, WriteMessage(FALSE, ok, failed))
       \/ /\ wresult' = "refused"
          /\ UNCHANGED <<fs, listing>>
          /\ Finish(SaveErrorStatus, WriteMessage(TRUE, ok, failed))
       \/ /\ wresult' = "failed"
          /\ fs' = [fs EXCEPT ![output_file] = Torn]
          /\ listing' = Listed(listing)
          /\ Finish(SaveErrorStatus, WriteMessage(TRUE, ok, failed))

\* save_todos without "if not todos: ... return": the file is written anyway
TodoExtractor_save_todos_always ==
    /\ pc = "save"
    /\ impl = "pkg"
    /\ formatted' = TodoExtractor_format_todos(todos)
    /\ pc' = "write"
    /\ UNCHANGED <<cache_dir, utilVars, exit, log, fs, listing, wopens, wresult>>
    /\ UNCHANGED <<impl, notes_path, rootKind, yielded, todos, opened, run, before>>

\* a save_todos that waits for todos to come when it got none
TodoExtractor_save_todos_waiting ==
    /\ pc = "save"
    /\ impl = "pkg"
    /\ IF todos = <<>>
       THEN UNCHANGED <<pc, formatted, exit, log>>
       ELSE /\ formatted' = TodoExtractor_format_todos(todos)
            /\ pc' = "write"
            /\ UNCHANGED <<exit, log>>
    /\ UNCHANGED <<cache_dir, utilVars, fs, listing, wopens, wresult>>
    /\ UNCHANGED <<impl, notes_path, rootKind, yielded, todos, opened, run, before>>

\* TodoExtractor.save_todos, called by main when get_all_todos has returned,
\* up to formatted_todos = self.format_todos(todos)
TodoExtractor_save_todos ==
    /\ pc = "save"
    /\ impl = "pkg"
    /\ IF todos = <<>>
       THEN /\ Finish(0, Msg("stdout", "No todos found in the specified path", 0))
            /\ UNCHANGED formatted
       ELSE /\ formatted' = TodoExtractor_format_todos(todos)
            /\ pc' = "write"
            /\ UNCHANGED <<exit, log>>
    /\ UNCHANGED <<cache_dir, utilVars, fs, listing, wopens, wresult>>
    /\ UNCHANGED <<impl, notes_path, rootKind, yielded, todos, opened, run, before>>

\* TodoExtractor.save_todos from the try on: the file is opened and written
TodoExtractor_save_todos_write ==
    /\ pc = "write"
    /\ impl = "pkg"
    /\ WriteFile(formatted,
                 Msg("stdout", "Saved todo sections", SavedCount(todos)),
                 Msg("stdout", "Error saving todos", 0))
    /\ formatted' = <<>>
    /\ UNCHANGED <<cache_dir, utilVars>>
    /\ UNCHANGED <<impl, notes_path, rootKind, yielded, todos, opened, run, before>>

\* save_todos_from_notes_in_one_file from the return of get_todos_from_path
\* on, and save_todos_in_one_file up to formatted_todos = format_todos(todos)
save_todos_in_one_file ==
    /\ pc = "save"
    /\ impl = "script"
    /\ IF todos = <<>>
       THEN /\ Finish(0, Msg("stdout", "No todos found in the specified path", 0))
            /\ UNCHANGED formatted
       ELSE /\ \E folders \in Orders(FolderSet(todos)) :
                  formatted' = format_todos(todos, folders)
            /\ pc' = "write"
            /\ UNCHANGED <<exit, log>>
    /\ UNCHANGED <<cache_dir, utilVars, fs, listing, wopens, wresult>>
    /\ UNCHANGED <<impl, notes_path, rootKind, yielded, todos, opened, run, before>>

\* save_todos_in_one_file from the open on: the file is opened and written
save_todos_in_one_file_write ==
    /\ pc = "write"
    /\ impl = "script"
    /\ WriteFile(formatted,
                 Msg("stdout", "Saved todo sections", SavedCount(todos)),
                 Msg("stderr", "Error saving todos", 0))
    /\ formatted' = <<>>
    /\ UNCHANGED <<cache_dir, utilVars>>
    /\ UNCHANGED <<impl, notes_path, rootKind, yielded, todos, opened, run, before>>

\* the user runs the tool once more on the tree that a run left which
\* saved its output
Rerun ==
    /\ pc = "done"
    /\ exit = 0
    /\ wresult = "ok"
    /\ run = "first"
    /\ before' = <<[out |-> fs[OutSlot], wrote |-> wopens > 0]>>
    /\ run' = "second"
    /\ pc' = "start"
    /\ yielded' = <<>>
    /\ todos' = <<>>
    /\ opened' = <<>>
    /\ wopens' = 0
    /\ wresult' = "none"
    /\ log' = <<>>
    /\ exit' = Running
    /\ UNCHANGED <<formatted, cache_dir, utilVars>>
    /\ UNCHANGED <<impl, notes_path, rootKind, fs, listing>>

Next ==
    \/ main
    \/ save_todos_from_notes_in_one_file
    \/ main_get_all_todos
    \/ script_get_todos_from_path
    \/ TodoExtractor_save_todos
    \/ TodoExtractor_save_todos_write
    \/ save_todos_in_one_file
    \/ save_todos_in_one_file_write
    \/ Rerun

Spec == Init /\ [][Next]_vars

(***************************************************************************)
(* One run of the tool from its start to its end, on every tree of Init.   *)
(***************************************************************************)
NextOnce ==
    \/ main
    \/ save_todos_from_notes_in_one_file
    \/ main_get_all_todos
    \/ script_get_todos_from_path
    \/ TodoExtractor_save_todos
    \/ TodoExtractor_save_todos_write
    \/ save_todos_in_one_file
    \/ save_todos_in_one_file_write

SpecOnce == Init /\ [][NextOnce]_vars

\* "* [ ] a" and "b": a note of one line with the marker, and one without
TextOne == TODO_IDENTIFIER \o <<" ", "a">>

TextNone == <<"b">>

\* the states of a place in the runs checked for termination: the notes
\* hold one short line or cannot be read
ShortStates(i) ==
    IF i \in Candidates THEN {File(TextOne), File(TextNone), UnreadableAt(i)}
    ELSE StatesOf(i)

ShortTreesOf(S) ==
    {[i \in Slots |->
        IF i \notin S THEN Absent
        ELSE IF i \in Candidates THEN g[i]
        ELSE CHOOSE d \in StatesOf(i) : TRUE] :
          g \in {h \in [S \cap Candidates ->
                          {File(TextOne), File(TextNone), Unopenable, Undecodable}] :
                   \A i \in S \cap Candidates : h[i] \in ShortStates(i)}}

InitFair ==
    /\ impl \in {"pkg", "script"}
    /\ notes_path \in NotesPaths
    /\ rootKind \in {"dir", "file", "missing"}
    /\ \E S \in SUBSET Slots :
          /\ Cardinality(S \ {OutSlot}) <= MaxFairEntries
          /\ rootKind # "dir" => S = {}
          /\ listing \in Listings(S)
          /\ fs \in ShortTreesOf(S)
    /\ run = "first"
    /\ before = <<>>
    /\ InitRun

\* the process is the only thread of control and the system keeps running
\* it: a step that can be taken is taken
SpecOnceFair == InitFair /\ [][NextOnce]_vars /\ WF_vars(NextOnce)

(***************************************************************************)
(* One run on a root that is itself named Work and may hold a directory    *)
(* Work: the notes of the root and those of Work/Work lie in different     *)
(* directories of the same name.  The entries are notes.                   *)
(***************************************************************************)
GroupPaths == {Work, <<"n">>}

InitGroup ==
    /\ impl \in {"pkg", "script"}
    /\ notes_path \in GroupPaths
    /\ rootKind = "dir"
    /\ \E S \in SUBSET Candidates :
          /\ Cardinality(S) <= MaxEntries
          /\ listing \in Listings(S)
          /\ fs \in TreesOf(S)
    /\ run = "first"
    /\ before = <<>>
    /\ InitRun

SpecGroup == InitGroup /\ [][NextOnce]_vars

(***************************************************************************)
(* The parser on every short line: a tree that holds one note, a.md under  *)
(* the root, whose text is one line of at most MaxLineLen characters, or   *)
(* one of the texts of NoteStates.                                         *)
(***************************************************************************)
LineChars == {"*", " ", "[", "]", "x"}

NoteSlot == CHOOSE i \in Slots : EntryPool[i].dir = <<>> /\ EntryPool[i].name = NameA

\* the sequences over LineChars of length n
LinesOfLen(n) == [1..n -> LineChars]

InitLines ==
    /\ impl \in {"pkg", "script"}
    /\ notes_path \in NotesPaths
    /\ rootKind = "dir"
    /\ \/ \E n \in 0..MaxLineLen : \E line \in LinesOfLen(n) :
             fs = [i \in Slots |-> IF i = NoteSlot THEN File(line) ELSE Absent]
       \/ \E text \in {TextTodos, TextNoMatch, TextTwice} :
             fs = [i \in Slots |-> IF i = NoteSlot THEN File(text) ELSE Absent]
    /\ listing = <<NoteSlot>>
    /\ run = "first"
    /\ before = <<>>
    /\ InitRun

NextLines ==
    \/ main
    \/ save_todos_from_notes_in_one_file
    \/ main_get_all_todos
    \/ script_get_todos_from_path

SpecLines == InitLines /\ [][NextLines]_vars

(***************************************************************************)
(* The scan under the ways a user can name the root: the directory n named *)
(* from its parent (n, n/, ./n), from the directory above that (p/n), from *)
(* inside (.) and from one of its subdirectories (..).  The notes read as  *)
(* text.                                                                   *)
(***************************************************************************)
PathForms ==
    { <<"n">>, <<"n", "/">>, <<".", "/", "n">>, <<"p", "/", "n">>, <<".">>, <<".", ".">> }

InitPaths ==
    /\ impl \in {"pkg", "script"}
    /\ notes_path \in PathForms
    /\ rootKind = "dir"
    /\ \E S \in SUBSET Candidates :
          /\ Cardinality(S) <= MaxEntries
          /\ listing \in Listings(S)
          /\ fs \in {g \in TreesOf(S) : \A i \in S : g[i].st = "ok"}
    /\ run = "first"
    /\ before = <<>>
    /\ InitRun

NextPaths ==
    \/ main
    \/ save_todos_from_notes_in_one_file
    \/ main_get_all_todos
    \/ script_get_todos_from_path

SpecPaths == InitPaths /\ [][NextPaths]_vars

(***************************************************************************)
(* The scan and the parse alone, on every tree of Init whose root is a     *)
(* directory: the run up to the return of get_all_todos and of             *)
(* get_todos_from_path.                                                    *)
(***************************************************************************)
InitScan ==
    /\ Init
    /\ rootKind = "dir"

NextScan ==
    \/ main
    \/ save_todos_from_notes_in_one_file
    \/ main_get_all_todos
    \/ script_get_todos_from_path

SpecScan == InitScan /\ [][NextScan]_vars

(***************************************************************************)
(* utils.py.  The utility functions are called in a process that has       *)
(* imported the package (the cache directory exists) and that is not the   *)
(* todo tool: no notes tree is involved.                                   *)
(***************************************************************************)
NoTree ==
    /\ impl = "pkg"
    /\ notes_path = <<>>
    /\ rootKind = "missing"
    /\ fs = [i \in Slots |-> Absent]
    /\ listing = <<>>
    /\ run = "first"
    /\ before = <<>>
    /\ cache_dir = TRUE
    /\ RunStart

\* "not text or not text.strip()" without its second half
ClipboardEmpty_falsy(clip) == clip.st = "None" \/ clip.text = <<>>

\* not text or not text.strip()
ClipboardEmpty(clip) == clip.st = "None" \/ clip.text = <<>> \/ Strip(clip.text) = <<>>

\* whether "except Exception" catches what the try block raised: SystemExit
\* derives from BaseException and passes
ExceptExceptionCatches(raised) == raised = "Exception"

\* the try block of get_clipboard_text: what it returns or raises, and what
\* it has printed
ClipboardTry(clip) ==
    IF clip.st = "raises"
    THEN [raised |-> "Exception", value |-> <<>>, msgs |-> <<>>]
    ELSE IF ClipboardEmpty(clip)
    THEN [raised |-> "SystemExit", value |-> <<>>,
          msgs |-> <<Msg("stdout", "Clipboard is empty or contains no text.", 0)>>]
    ELSE [raised |-> "", value |-> <<Strip(clip.text)>>, msgs |-> <<>>]

\* utils.get_clipboard_text
get_clipboard_text ==
    /\ pc = "start"
    /\ clipboard # Unused
    /\ LET body == ClipboardTry(clipboard)
       IN  IF body.raised = ""
           THEN /\ returned' = body.value
                /\ pc' = "returned"
                /\ UNCHANGED <<exit, log>>
           ELSE IF ExceptExceptionCatches(body.raised)
           THEN /\ returned' = <<>>
                /\ pc' = "done"
                /\ exit' = 1
                /\ log' = log \o body.msgs
                             \o <<Msg("log", "Failed to get clipboard content", 0),
                                  Msg("stdout", "Failed to get clipboard content", 0)>>
           ELSE /\ returned' = <<>>
                /\ pc' = "done"
                /\ exit' = 1
                /\ log' = log \o body.msgs
    /\ UNCHANGED <<clipboard, size_bytes, formatted, cache_dir, max_retries, calls, copied>>
    /\ UNCHANGED <<impl, notes_path, rootKind, fs, listing, yielded, todos, opened, wopens,
                   wresult, run, before>>

\* format_file_size.  A size is held as its digits to the base 1024, the
\* highest first, so that sizes of a terabyte and more fit; while the loop
\* runs the number is whole \o frac with the point between the two.  All
\* the sizes drawn are below 2^53, where the float arithmetic of the code
\* (a division by 1024.0 moves the point) is exact.
Base == 1024

\* the unit list without GB
SizeUnits_short == <<"B", "KB", "MB">>

\* for unit in ["B", "KB", "MB", "GB"]
SizeUnits == <<"B", "KB", "MB", "GB">>

\* the value of digits to the base 1024
RECURSIVE IntVal(_)
IntVal(digits) ==
    IF digits = <<>> THEN 0
    ELSE IntVal(SubSeq(digits, 1, Len(digits) - 1)) * Base + digits[Len(digits)]

\* ten times the fraction 0.frac: c is its whole part, d the digits behind
RECURSIVE TimesTen(_)
TimesTen(frac) ==
    IF frac = <<>> THEN [c |-> 0, d |-> <<>>]
    ELSE LET r == TimesTen(Tail(frac))
             v == Head(frac) * 10 + r.c
         IN  [c |-> v \div Base, d |-> <<v % Base>> \o r.d]

\* how the fraction 0.d compares with one half: "below", "half", "above"
HalfOf(d) ==
    IF d = <<>> \/ d[1] < Base \div 2 THEN "below"
    ELSE IF d[1] > Base \div 2 \/ \E i \in 2..Len(d) : d[i] # 0 THEN "above"
    ELSE "half"

\* f"{size_bytes:.1f} {unit}": the nearest number with one decimal, of two
\* equally near the one whose last digit is even
Render(whole, frac, unit) ==
    LET x     == TimesTen(frac)
        h     == HalfOf(x.d)
        up    == h = "above" \/ (h = "half" /\ x.c % 2 = 1)
        tenth == IF up THEN x.c + 1 ELSE x.c
    IN  IF tenth = 10
        THEN [whole |-> IntVal(whole) + 1, tenth |-> 0, unit |-> unit]
        ELSE [whole |-> IntVal(whole), tenth |-> tenth, unit |-> unit]

\* the loop of format_file_size: size_bytes < 1024.0 when at most one digit
\* stands before the point; size_bytes /= 1024.0 moves the point one digit up
RECURSIVE FormatLoop(_, _, _)
FormatLoop(whole, frac, units) ==
    IF units = <<>> THEN Render(whole, frac, "TB")
    ELSE IF Len(whole) <= 1 THEN Render(whole, frac, Head(units))
    ELSE FormatLoop(SubSeq(whole, 1, Len(whole) - 1), <<whole[Len(whole)]>> \o frac,
                    Tail(units))

\* utils.format_file_size
format_file_size ==
    /\ pc = "start"
    /\ size_bytes # <<>>
    /\ returned' = <<FormatLoop(size_bytes, <<>>, SizeUnits)>>
    /\ pc' = "returned"
    /\ UNCHANGED <<exit, log, clipboard, size_bytes, formatted, cache_dir, max_retries,
                   calls, copied>>
    /\ UNCHANGED <<impl, notes_path, rootKind, fs, listing, yielded, todos, opened, wopens,
                   wresult, run, before>>

\* the digits the sizes are made of: nothing, one, the fractions on both
\* sides of a rounding step (52/1024 is just above 0.05), a quarter, a half,
\* three quarters, and the highest digit
DigitSamples == {0, 1, 52, 256, 512, 768, 1023}

\* a whole number a float holds exactly: below 2^53 = 8 * 1024^5
ExactAsFloat(digits) == Len(digits) <= 5 \/ (Len(digits) = 6 /\ digits[1] < 8)

InitSize ==
    /\ NoTree
    /\ clipboard = Unused
    /\ \E n \in 1..MaxDigits : \E digits \in [1..n -> DigitSamples] :
          /\ n = 1 \/ digits[1] # 0
          /\ ExactAsFloat(digits)
          /\ size_bytes = digits
    /\ returned = <<>>
    /\ RetryIdle

NextSize == format_file_size

SpecSize == InitSize /\ [][NextSize]_vars

(***************************************************************************)
(* TodoExtractor.format_todos called by itself on a list of records.  The  *)
(* folders and file names are a plain name and one that holds the marker;  *)
(* the todos are the marker alone and the marker behind "# " and "## ",    *)
(* which make a todo line look like a heading.                             *)
(***************************************************************************)
FormatFolderNames == {<<"b">>, TODO_IDENTIFIER}

\* a file name with the todos found in the file
FileSamples ==
    {[filename |-> <<"f">>, todos |-> <<TODO_IDENTIFIER>>],
     [filename |-> TODO_IDENTIFIER, todos |-> <<TODO_IDENTIFIER>>],
     [filename |-> <<"f">>, todos |-> <<<<"#", " ">> \o TODO_IDENTIFIER>>],
     [filename |-> TODO_IDENTIFIER, todos |-> <<<<"#", "#", " ">> \o TODO_IDENTIFIER>>],
     [filename |-> <<"f">>,
      todos |-> <<TODO_IDENTIFIER, <<"#", "#", " ">> \o TODO_IDENTIFIER, TODO_IDENTIFIER>>]}

RecordSamples ==
    {[folder |-> d, filename |-> s.filename, todos |-> s.todos] :
        d \in FormatFolderNames, s \in FileSamples}

\* the lists of at most MaxRecords records in ascending order of folder
FormatInputs ==
    UNION {{recs \in [1..n -> RecordSamples] :
               \A k \in 1..(n - 1) : ~StrLess(recs[k + 1].folder, recs[k].folder)} :
           n \in 0..MaxRecords}

InitFormat ==
    /\ impl = "pkg"
    /\ notes_path = <<>>
    /\ rootKind = "missing"
    /\ fs = [i \in Slots |-> Absent]
    /\ listing = <<>>
    /\ run = "first"
    /\ before = <<>>
    /\ cache_dir = TRUE
    /\ pc = "start"
    /\ yielded = <<>>
    /\ opened = <<>>
    /\ wopens = 0
    /\ wresult = "none"
    /\ log = <<>>
    /\ exit = Running
    /\ formatted = <<>>
    /\ UtilIdle
    /\ todos \in FormatInputs

\* formatted_todos = extractor.format_todos(todos)
call_format_todos ==
    /\ pc = "start"
    /\ formatted' = TodoExtractor_format_todos(todos)
    /\ pc' = "returned"
    /\ UNCHANGED <<exit, log, cache_dir, utilVars>>
    /\ UNCHANGED <<impl, notes_path, rootKind, fs, listing, yielded, todos, opened, wopens,
                   wresult, run, before>>

NextFormat == call_format_todos

SpecFormat == InitFormat /\ [][NextFormat]_vars

ClipChars == {" ", "\n", "\t", "a"}

InitClip ==
    /\ NoTree
    /\ \/ clipboard \in {ClipNone, ClipRaises}
       \/ \E n \in 0..MaxClipLen : \E text \in [1..n -> ClipChars] : clipboard = ClipText(text)
    /\ size_bytes = <<>>
    /\ returned = <<>>
    /\ RetryIdle

NextClip == get_clipboard_text

SpecClip == InitClip /\ [][NextClip]_vars

(***************************************************************************)
(* The functions under tenacity's retry decorator and their callers:       *)
(* utils.run_command with run_say_command and run_ffmpeg_command,          *)
(* JIRATicketInfo.get_ticket_info with process_ticket, and polish_text     *)
(* with process_clipboard of TextPolisher and OllamaTextPolisher.  One     *)
(* step is one attempt with what follows it up to the next attempt (the    *)
(* decorator sleeps in between) or to the end of the caller.  What the     *)
(* command or the service does at an attempt is the environment's choice.  *)
(***************************************************************************)
\* stop_after_attempt(n): stop once the attempt just made, counted from 1,
\* is the n-th or a later one
stop_after_attempt_late(n, attempt_number) == attempt_number > n

stop_after_attempt(n, attempt_number) == attempt_number >= n

\* @retry(stop=stop_after_attempt(n), wait=..., reraise=True) after an
\* attempt: the value is returned; an exception leads to another attempt
\* unless stop says so, and then the exception of the last attempt is raised
Retrying(n, attempt_number, raised) ==
    IF ~raised THEN "return"
    ELSE IF stop_after_attempt(n, attempt_number) THEN "reraise"
    ELSE "again"

\* an exception that nothing catches: the interpreter prints the traceback
\* and the process ends with status 1
Uncaught == Msg("stderr", "Traceback", 0)

\* set_clipboard_text(text): pyperclip.copy works or raises
set_clipboard_text(text, works) ==
    IF works
    THEN [clip |-> ClipText(text), exits |-> FALSE,
          msgs |-> <<Msg("log", "Text copied to clipboard", 0)>>]
    ELSE [clip |-> clipboard, exits |-> TRUE,
          msgs |-> <<Msg("log", "Failed to set clipboard content", 0),
                     Msg("stdout", "Failed to copy text to clipboard", 0)>>]

\* subprocess.run(cmd, check=True): the command ends with status 0, it ends
\* with another status, or it cannot be started
CommandOutcomes == {"ok", "CalledProcessError", "OSError"}

\* the body of run_command at one attempt
run_command(outcome) ==
    [raised |-> outcome # "ok",
     msgs   |-> <<Msg("log", "Running command", 0)>>]

\* run_say_command and run_ffmpeg_command: try: run_command(cmd, ...) with
\* except subprocess.CalledProcessError
RunWrapped(done_text, error_text, failed_text) ==
    /\ pc \in {"start", "retry"}
    /\ \E outcome \in CommandOutcomes :
       \E attempts \in {Append(calls, outcome)} :
       \E next \in {Retrying(max_retries, Len(attempts), run_command(outcome).raised)} :
          /\ calls' = attempts
          /\ IF next = "return"
             THEN /\ pc' = "returned"
                  /\ returned' = <<"None">>
                  /\ log' = log \o run_command(outcome).msgs \o <<Msg("log", done_text, 0)>>
                  /\ UNCHANGED exit
             ELSE IF next = "again"
             THEN /\ pc' = "retry"
                  /\ log' = log \o run_command(outcome).msgs
                  /\ UNCHANGED <<returned, exit>>
             ELSE /\ pc' = "done"
                  /\ exit' = 1
                  /\ log' = log \o run_command(outcome).msgs
                               \o (IF outcome = "CalledProcessError"
                                   THEN <<Msg("log", error_text, 0),
                                          Msg("stdout", failed_text, 0)>>
                                   ELSE <<Uncaught>>)
                  /\ UNCHANGED returned
    /\ UNCHANGED <<clipboard, size_bytes, max_retries, copied, formatted, cache_dir>>
    /\ UNCHANGED <<impl, notes_path, rootKind, fs, listing, yielded, todos, opened, wopens,
                   wresult, run, before>>

\* utils.run_say_command(text) and run_say_command(text, output_file)
run_say_command ==
    /\ impl \in {"say", "say -o"}
    /\ RunWrapped("TTS completed successfully", "TTS command failed", "TTS failed")

\* utils.run_ffmpeg_command
run_ffmpeg_command ==
    /\ impl = "ffmpeg"
    /\ RunWrapped("FFmpeg conversion completed", "FFmpeg conversion failed",
                  "Audio conversion failed")

\* self.jira_client.issue(ticket_id, expand="comments") and the reading of
\* its fields: it works, or something raises, with a message or without
JiraOutcomes == {"ok", "raised", "raised without text"}

\* the body of get_ticket_info at one attempt: "except Exception as e:
\* return None, str(e)", so the body never raises
get_ticket_info(outcome) ==
    [raised      |-> FALSE,
     ticket_info |-> IF outcome = "ok" THEN "ticket" ELSE "None",
     error       |-> IF outcome = "ok" THEN "None"
                     ELSE IF outcome = "raised" THEN "text" ELSE ""]

\* what process_ticket copies: format_output(ticket_info, False)
OutputText == <<"t">>

\* JIRATicketInfo.process_ticket(ticket_id) without the summary, to the end
\* of the process
process_ticket ==
    /\ impl = "jira"
    /\ pc \in {"start", "retry"}
    /\ \E outcome \in JiraOutcomes, works \in BOOLEAN :
       \E attempts \in {Append(calls, outcome)} :
       \E got \in {get_ticket_info(outcome)} :
       \E next \in {Retrying(max_retries, Len(attempts), got.raised)} :
       \E fetching \in {IF pc = "start" THEN <<Msg("stdout", "Fetching JIRA ticket", 0)>>
                        ELSE <<>>} :
          /\ calls' = attempts
          /\ IF next = "again"
             THEN /\ pc' = "retry"
                  /\ log' = log \o fetching
                  /\ UNCHANGED <<exit, clipboard, copied, returned>>
             ELSE IF next = "reraise"
             THEN /\ pc' = "done"
                  /\ exit' = 1
                  /\ log' = log \o fetching \o <<Uncaught>>
                  /\ UNCHANGED <<clipboard, copied, returned>>
             ELSE IF got.error \notin {"None", ""}
             THEN /\ pc' = "done"
                  /\ exit' = 1
                  /\ log' = log \o fetching \o <<Msg("stdout", "Error fetching ticket", 0)>>
                  /\ returned' = <<got>>
                  /\ UNCHANGED <<clipboard, copied>>
             ELSE IF got.ticket_info = "None"
             THEN /\ pc' = "done"
                  /\ exit' = 1
                  /\ log' = log \o fetching
                               \o <<Msg("stdout", "Failed to fetch ticket information", 0)>>
                  /\ returned' = <<got>>
                  /\ UNCHANGED <<clipboard, copied>>
             ELSE \E copy \in {set_clipboard_text(OutputText, works)} :
                  /\ pc' = "done"
                  /\ returned' = <<got>>
                  /\ copied' = Append(copied, OutputText)
                  /\ clipboard' = copy.clip
                  /\ exit' = IF copy.exits THEN 1 ELSE 0
                  /\ log' = log \o fetching \o copy.msgs
                               \o (IF copy.exits THEN <<>>
                                   ELSE <<Msg("stdout", "Successfully retrieved information", 0)>>)
    /\ UNCHANGED <<size_bytes, max_retries, formatted, cache_dir>>
    /\ UNCHANGED <<impl, notes_path, rootKind, fs, listing, yielded, todos, opened, wopens,
                   wresult, run, before>>

\* what the model answers with: a text, a text with a line feed behind it,
\* the text the clipboard may hold already, nothing
Responses == {<<"b">>, <<"b", "\n">>, <<"a">>, <<>>}

\* client.responses.create / ollama.chat: an answer, or an exception
PolishOutcomes ==
    {[st |-> "raised", text |-> <<>>]} \cup {[st |-> "ok", text |-> r] : r \in Responses}

\* a polish_text that gives the empty text when the service raised
polish_text_swallowing(outcome) ==
    [raised |-> FALSE,
     value  |-> Strip(outcome.text),
     msgs   |-> IF outcome.st = "raised" THEN <<Msg("stdout", "API error", 0)>> ELSE <<>>]

\* the body of polish_text at one attempt: the stripped answer, or the
\* error printed and raised again
polish_text(outcome) ==
    [raised |-> outcome.st = "raised",
     value  |-> Strip(outcome.text),
     msgs   |-> IF outcome.st = "raised" THEN <<Msg("stdout", "API error", 0)>> ELSE <<>>]

\* process_clipboard up to the call of polish_text: clipboard_content =
\* get_clipboard_text(), which ends the process on an empty clipboard
process_clipboard ==
    /\ impl \in {"openai", "ollama"}
    /\ pc = "start"
    /\ LET body == ClipboardTry(clipboard)
       IN  IF body.raised = ""
           THEN /\ returned' = body.value
                /\ pc' = "polish"
                /\ log' = Append(log, Msg("stdout", "Polishing text", 0))
                /\ UNCHANGED exit
           ELSE /\ returned' = <<>>
                /\ pc' = "done"
                /\ exit' = 1
                /\ log' = log \o body.msgs
                             \o (IF ExceptExceptionCatches(body.raised)
                                 THEN <<Msg("log", "Failed to get clipboard content", 0),
                                        Msg("stdout", "Failed to get clipboard content", 0)>>
                                 ELSE <<>>)
    /\ UNCHANGED <<clipboard, size_bytes, max_retries, calls, copied, formatted, cache_dir>>
    /\ UNCHANGED <<impl, notes_path, rootKind, fs, listing, yielded, todos, opened, wopens,
                   wresult, run, before>>

\* process_clipboard from polished_text = self.polish_text(clipboard_content,
\* mode) on: one attempt, and after the last one the copy and the end of the
\* process
process_clipboard_polish ==
    /\ impl \in {"openai", "ollama"}
    /\ pc \in {"polish", "retry"}
    /\ \E outcome \in PolishOutcomes, works \in BOOLEAN :
       \E attempts \in {Append(calls, outcome.st)} :
       \E got \in {polish_text(outcome)} :
       \E next \in {Retrying(max_retries, Len(attempts), got.raised)} :
          /\ calls' = attempts
          /\ IF next = "again"
             THEN /\ pc' = "retry"
                  /\ log' = log \o got.msgs
                  /\ UNCHANGED <<exit, clipboard, copied, returned>>
             ELSE IF next = "reraise"
             THEN /\ pc' = "done"
                  /\ exit' = 1
                  /\ log' = log \o got.msgs \o <<Uncaught>>
                  /\ UNCHANGED <<clipboard, copied, returned>>
             ELSE \E copy \in {set_clipboard_text(got.value, works)} :
                  /\ pc' = "done"
                  /\ returned' = <<got.value>>
                  /\ copied' = Append(copied, got.value)
                  /\ clipboard' = copy.clip
                  /\ exit' = IF copy.exits THEN 1 ELSE 0
                  /\ log' = log \o got.msgs \o copy.msgs
                               \o (IF copy.exits THEN <<>>
                                   ELSE <<Msg("stdout", "Text polished and copied to clipboard!", 0)>>)
    /\ UNCHANGED <<size_bytes, max_retries, formatted, cache_dir>>
    /\ UNCHANGED <<impl, notes_path, rootKind, fs, listing, yielded, todos, opened, wopens,
                   wresult, run, before>>

\* the functions a process of SpecRetry calls
Programs == {"say", "say -o", "ffmpeg", "jira", "openai", "ollama"}

\* what the clipboard holds when a polisher starts
ClipSamples ==
    {ClipNone, ClipRaises, ClipText(<<>>), ClipText(<<" ">>), ClipText(<<"a">>),
     ClipText(<<" ", "a", "\n">>)}

\* MAX_RETRIES in the environment or in .env sets settings.max_retries to
\* any int; 0 is among the values drawn
InitRetry ==
    /\ impl \in Programs
    /\ notes_path = <<>>
    /\ rootKind = "missing"
    /\ fs = [i \in Slots |-> Absent]
    /\ listing = <<>>
    /\ run = "first"
    /\ before = <<>>
    /\ cache_dir = TRUE
    /\ RunStart
    /\ IF impl \in {"openai", "ollama"} THEN clipboard \in ClipSamples ELSE clipboard = Unused
    /\ size_bytes = <<>>
    /\ returned = <<>>
    /\ max_retries \in 0..MaxRetries
    /\ calls = <<>>
    /\ copied = <<>>

NextRetry ==
    \/ run_say_command
    \/ run_ffmpeg_command
    \/ process_ticket
    \/ process_clipboard
    \/ process_clipboard_polish

SpecRetry == InitRetry /\ [][NextRetry]_vars

(***************************************************************************)
(* Reading the output file back.  The reader goes by position alone: a     *)
(* folder heading, then files, each a heading and lines up to an empty     *)
(* line, then the empty line that closes the folder.  It gives the blocks  *)
(* it read and whether the text had this form to its end.                  *)
(***************************************************************************)
StartsWith(s, prefix) == Len(s) >= Len(prefix) /\ SubSeq(s, 1, Len(prefix)) = prefix

\* a line that ends in its only line feed
IsLine(l) == l # <<>> /\ l[Len(l)] = "\n" /\ \A i \in 1..(Len(l) - 1) : l[i] # "\n"

\* the line without its line feed and without its first n characters
Payload(l, n) == SubSeq(l, n + 1, Len(l) - 1)

Unread == [ok |-> FALSE, got |-> <<>>, rest |-> <<>>]

\* the lines up to the first empty line
RECURSIVE ReadTodoLines(_)
ReadTodoLines(ls) ==
    IF ls = <<>> \/ ~IsLine(Head(ls)) THEN Unread
    ELSE IF Head(ls) = LF THEN [ok |-> TRUE, got |-> <<>>, rest |-> Tail(ls)]
    ELSE LET r == ReadTodoLines(Tail(ls))
         IN  [ok |-> r.ok, got |-> <<Payload(Head(ls), 0)>> \o r.got, rest |-> r.rest]

\* the files of a folder, up to the empty line that closes it
RECURSIVE ReadFiles(_)
ReadFiles(ls) ==
    IF ls = <<>> \/ ~IsLine(Head(ls)) THEN Unread
    ELSE IF Head(ls) = LF THEN [ok |-> TRUE, got |-> <<>>, rest |-> Tail(ls)]
    ELSE IF ~StartsWith(Head(ls), <<"#", "#", " ">>) THEN Unread
    ELSE LET t == ReadTodoLines(Tail(ls))
             r == IF t.ok THEN ReadFiles(t.rest) ELSE Unread
         IN  [ok   |-> r.ok,
              got  |-> <<[filename |-> Payload(Head(ls), 3), todos |-> t.got]>> \o r.got,
              rest |-> r.rest]

\* the folders, to the end of the text
RECURSIVE ReadFolders(_)
ReadFolders(ls) ==
    IF ls = <<>> THEN [ok |-> TRUE, got |-> <<>>, rest |-> <<>>]
    ELSE IF ~IsLine(Head(ls)) \/ ~StartsWith(Head(ls), <<"#", " ">>) THEN Unread
    ELSE LET f == ReadFiles(Tail(ls))
             r == IF f.ok THEN ReadFolders(f.rest) ELSE Unread
         IN  [ok   |-> r.ok,
              got  |-> <<[folder |-> Payload(Head(ls), 2), files |-> f.got]>> \o r.got,
              rest |-> r.rest]

ReadBack(text) == ReadFolders(ReadLines(text))

\* a run that has written open_todos.md and ended
Saved == pc = "done" /\ wresult = "ok"

\* what the output file holds, as blocks
OutBlocks == ReadBack(fs[OutSlot].text)

\* the records of a folder, in the order of the list
RECURSIVE RecordsOf(_, _)
RecordsOf(folder, recs) ==
    IF recs = <<>> THEN <<>>
    ELSE (IF Head(recs).folder = folder
          THEN <<[filename |-> Head(recs).filename, todos |-> Head(recs).todos]>>
          ELSE <<>>) \o RecordsOf(folder, Tail(recs))

\* the places a sequence of candidates names
SlotsIn(cands) == {cands[i].slot : i \in 1..Len(cands)}

\* whether the text at a place reads and has a line with the marker
MarkerAt(l, i) == \A k \in 1..Len(TODO_IDENTIFIER) : i + k - 1 <= Len(l) /\ l[i + k - 1] = TODO_IDENTIFIER[k]

HasMarker(l) == \E i \in 1..Len(l) : MarkerAt(l, i)

MarkerLines(text) == LET ls == ReadLines(text) IN {i \in 1..Len(ls) : HasMarker(ls[i])}

\* the folder and the file name of the entry at a place, as the tree has them
FolderOf(i) ==
    IF EntryPool[i].dir = <<>> THEN PathName(PathParts(notes_path))
    ELSE EntryPool[i].dir[Len(EntryPool[i].dir)]

RecordsFor(i) ==
    {k \in 1..Len(todos) : todos[k].folder = FolderOf(i) /\ todos[k].filename = EntryPool[i].name}

(***************************************************************************)
(* C1: the Scanner never yields a path whose base name is open_todos.md    *)
(* and never yields a path whose name does not end in .md, at any depth,   *)
(* in the packaged module and in the root-level script.                    *)
(***************************************************************************)
C1_ScannerFilter ==
    \A k \in 1..Len(yielded) :
       LET name == IF impl = "pkg" THEN PathName(yielded[k].path)
                   ELSE os_path_split(yielded[k].path)[2]
       IN  /\ name = EntryPool[yielded[k].slot].name
           /\ name # FILENAME_TODOS
           /\ EndsWith(name, MARKDOWN_EXTENSION)

\* a scan of a tree that holds an open_todos.md in a subdirectory and a file
\* that is no note, and that yielded a note two directories down
C1_Witness ==
    /\ pc = "save"
    /\ \E i \in Present(fs) \ {OutSlot} : EntryPool[i].name = FILENAME_TODOS
    /\ \E i \in Present(fs) : EntryPool[i].name = NameMdx
    /\ \E k \in 1..Len(yielded) : Len(EntryPool[yielded[k].slot].dir) = 2

(***************************************************************************)
(* C2 (as amended): for every line of a readable note, the Parser selects  *)
(* the line if and only if the line contains '* [ ]' at some position; a   *)
(* line that contains '* [x]' is not selected unless it contains '* [ ]'   *)
(* as well.  The selected lines are read off the record: it exists exactly *)
(* when some line has the marker, and its todos are the stripped lines     *)
(* that have it, one for one and in order.                                 *)
(***************************************************************************)
CHECKED == <<"*", " ", "[", "x", "]">>

\* the k-th smallest element of a set of numbers
RECURSIVE Nth(_, _)
Nth(S, k) ==
    LET m == CHOOSE x \in S : \A y \in S : x <= y
    IN  IF k = 1 THEN m ELSE Nth(S \ {m}, k - 1)

\* the todos that a note's text must give: those of MarkerLines, stripped
ParsedAsMarked(text, got) ==
    LET ls == ReadLines(text)
        marked == MarkerLines(text)
    IN  /\ Len(got) = Cardinality(marked)
        /\ \A k \in 1..Len(got) : got[k] = Strip(ls[Nth(marked, k)])

C2_MarkerDetection ==
    (pc = "save" /\ fs[NoteSlot].st = "ok") =>
       /\ (todos = <<>>) <=> (MarkerLines(fs[NoteSlot].text) = {})
       /\ Len(todos) <= 1
       /\ \A r \in 1..Len(todos) : ParsedAsMarked(fs[NoteSlot].text, todos[r].todos)
       /\ (Contains(fs[NoteSlot].text, CHECKED) /\ ~Contains(fs[NoteSlot].text, TODO_IDENTIFIER))
             => todos = <<>>

\* a line whose marker is not at its start has been selected
C2_Witness ==
    /\ pc = "save"
    /\ fs[NoteSlot].text = <<"x">> \o TODO_IDENTIFIER
    /\ Len(todos) = 1
    /\ todos[1].todos = <<fs[NoteSlot].text>>

\* C2 as stated: in addition, no selected line contains '* [x]'
C2_AsStated ==
    /\ C2_MarkerDetection
    /\ pc = "save" =>
          \A r \in 1..Len(todos) : \A k \in 1..Len(todos[r].todos) :
             ~Contains(todos[r].todos[k], CHECKED)

(***************************************************************************)
(* C3: every record of the list has a non-empty todos list; a readable     *)
(* file without a matching line gives no record, is not in the list and    *)
(* has no heading and no line in the output.                               *)
(***************************************************************************)
\* the notes that were yielded, read as text and hold no marker
NoMatchNotes == {i \in SlotsIn(yielded) : fs[i].st = "ok" /\ ~HasMarker(fs[i].text)}

C3_RecordsNonEmpty ==
    /\ \A k \in 1..Len(todos) : todos[k].todos # <<>>
    /\ todos # <<>> => \A i \in NoMatchNotes : RecordsFor(i) = {}
    /\ Saved =>
          LET out == OutBlocks
              nomatch == {<<FolderOf(i), EntryPool[i].name>> : i \in NoMatchNotes}
          IN  /\ out.ok
              /\ \A b \in 1..Len(out.got) : \A f \in 1..Len(out.got[b].files) :
                    /\ out.got[b].files[f].todos # <<>>
                    /\ <<out.got[b].folder, out.got[b].files[f].filename>> \notin nomatch

\* a saved run over a note without a marker and a note with markers
C3_Witness ==
    /\ Saved
    /\ NoMatchNotes # {}
    /\ Len(todos) >= 1
    /\ Len(yielded) >= 2

(***************************************************************************)
(* C4: the folder heading lines '# <folder>' of the output are in          *)
(* ascending lexicographic order of folder name, in the packaged module    *)
(* and in the root-level script, whatever the order of the records.        *)
(***************************************************************************)
HeadingsAscending(blocks) ==
    \A b \in 1..(Len(blocks) - 1) : StrLess(blocks[b].folder, blocks[b + 1].folder)

C4_FoldersAscending == Saved => LET out == OutBlocks IN out.ok /\ HeadingsAscending(out.got)

(***************************************************************************)
(* C5: two runs in succession on the same tree write the same bytes to     *)
(* open_todos.md, and the second run's Scanner does not yield the file the *)
(* first run wrote; for the packaged tool and the root-level script.       *)
(***************************************************************************)
C5_SecondRunSame ==
    (run = "second" /\ Saved /\ before[1].wrote) =>
       /\ OutSlot \notin SlotsIn(yielded)
       /\ fs[OutSlot] = before[1].out

(***************************************************************************)
(* C6: the output has exactly this shape: for each distinct folder one     *)
(* line '# <folder>', then for each record of the folder '## <filename>',  *)
(* its todos one per line and one empty line, then one more empty line;    *)
(* every line ends in one line feed and there is nothing else.             *)
(***************************************************************************)
RECURSIVE CountTodos(_)
CountTodos(recs) ==
    IF recs = <<>> THEN 0 ELSE Len(Head(recs).todos) + CountTodos(Tail(recs))

C6_Shape ==
    Saved =>
       LET ls  == ReadLines(fs[OutSlot].text)
           out == ReadFolders(ls)
       IN  /\ out.ok
           /\ \A a, b \in 1..Len(out.got) : a # b => out.got[a].folder # out.got[b].folder
           /\ {out.got[b].folder : b \in 1..Len(out.got)} = FolderSet(todos)
           /\ \A b \in 1..Len(out.got) : out.got[b].files = RecordsOf(out.got[b].folder, todos)
           /\ Len(ls) = 2 * Cardinality(FolderSet(todos)) + 2 * Len(todos) + CountTodos(todos)

\* the packaged tool has saved two records of one folder and one of another
C6_Witness ==
    /\ Saved
    /\ impl = "pkg"
    /\ Len(todos) = 3
    /\ LET out == OutBlocks
       IN  Len(out.got) = 2 /\ \E b \in 1..2 : Len(out.got[b].files) = 2

(***************************************************************************)
(* C7: with an empty record list format_todos returns the empty list and   *)
(* the run reports 'No todos found in the specified path', does not write  *)
(* open_todos.md (a file of that name stays as it is) and exits with 0.    *)
(***************************************************************************)
C7_EmptyNoWrite ==
    [][(pc = "save" /\ todos = <<>>) =>
          /\ TodoExtractor_format_todos(todos) = <<>>
          /\ format_todos(todos, <<>>) = <<>>
          /\ pc' = "done"
          /\ exit' = 0
          /\ log' = Append(log, Msg("stdout", "No todos found in the specified path", 0))
          /\ wopens = 0 /\ wopens' = 0
          /\ fs' = fs]_vars

\* a run that found notes but no todo has ended, beside an older output file
C7_Witness ==
    /\ pc = "done"
    /\ todos = <<>>
    /\ yielded # <<>>
    /\ exit = 0
    /\ fs[OutSlot] = File(TextTodos)
    /\ log[Len(log)].text = "No todos found in the specified path"

(***************************************************************************)
(* C8: a candidate that cannot be opened or decoded gives no record and    *)
(* raises nothing, an error is reported for it, the run goes on: what is   *)
(* written is what would be written were the file absent, and the run      *)
(* ends successfully.                                                      *)
(***************************************************************************)
Unreadable == {i \in SlotsIn(yielded) : fs[i].st # "ok"}

\* a listing without the places of B
RECURSIVE Without(_, _)
Without(order, B) ==
    IF order = <<>> THEN <<>>
    ELSE (IF Head(order) \in B THEN <<>> ELSE <<Head(order)>>) \o Without(Tail(order), B)

\* the records of the same tree with the unreadable candidates absent
TodosWithoutUnreadable ==
    LET tree  == [i \in Slots |-> IF i \in Unreadable THEN Absent ELSE fs[i]]
        order == Without(listing, Unreadable)
    IN  IF impl = "pkg"
        THEN TodoExtractor_get_all_todos(
                 TodoExtractor_walk_through_notes(PathParts(notes_path), order), tree, NoTodos).todos
        ELSE get_todos_from_path(walk_through_notes(notes_path, order), tree, NoTodos).todos

C8_UnreadableSkipped ==
    (pc \in {"save", "done"} /\ Unreadable # {}) =>
       /\ \A i \in Unreadable :
             /\ RecordsFor(i) = {}
             /\ \E m \in 1..Len(log) : log[m].text = "Error reading" /\ log[m].about = i
       /\ (pc = "save" \/ Saved) =>
             LET expected == TodosWithoutUnreadable
             IN  /\ todos = expected
                 /\ Saved =>
                       \/ impl = "pkg"
                          /\ fs[OutSlot].text = WriteLines(TodoExtractor_format_todos(expected))
                       \/ impl = "script"
                          /\ \E o \in Orders(FolderSet(expected)) :
                                fs[OutSlot].text = WriteLines(format_todos(expected, o))
       /\ (pc = "done" /\ rootKind = "dir" /\ wresult \in {"none", "ok"}) => exit = 0

\* a saved run that met a file it could not open and one it could not decode
C8_Witness ==
    /\ Saved
    /\ exit = 0
    /\ \E i, j \in Unreadable : fs[i] = Unopenable /\ fs[j] = Undecodable
    /\ todos # <<>>

(***************************************************************************)
(* C9: a run ends with a non-zero exit status if and only if the root path *)
(* is missing or not a directory, or the output file cannot be written;    *)
(* unreadable notes and the no-todos case leave the status at zero.        *)
(***************************************************************************)
C9_ExitStatus ==
    pc = "done" =>
       ((exit # 0) <=> (rootKind # "dir" \/ wresult \in {"refused", "failed"}))

\* a run without any todo that met two unreadable notes has ended with 0
C9_Witness ==
    /\ pc = "done"
    /\ exit = 0
    /\ Cardinality(Unreadable) >= 2
    /\ Len(log) = Cardinality(Unreadable) + 1

(***************************************************************************)
(* C10: when the root path does not exist or is not a directory the run    *)
(* reports the error and exits non-zero before any scanning: no note is    *)
(* opened and open_todos.md is not written.                                *)
(***************************************************************************)
C10_BadRootStopsFirst ==
    rootKind # "dir" =>
       /\ pc \in {"start", "done"}
       /\ yielded = <<>>
       /\ opened = <<>>
       /\ wopens = 0
       /\ fs[OutSlot] = Absent
       /\ pc = "done" => (exit # 0 /\ Len(log) = 1 /\ log[1].text # "No todos found in the specified path")

\* a run on a path that names a file has ended
C10_Witness ==
    /\ pc = "done"
    /\ rootKind = "file"
    /\ exit # 0
    /\ Len(log) = 1

(***************************************************************************)
(* C11: after a successful write the number in 'Saved N todo sections' is  *)
(* the number of records that were serialized (the '## <filename>' blocks  *)
(* of the output), not the number of todo lines.                           *)
(***************************************************************************)
\* the file blocks of the folder blocks read back
RECURSIVE CountFiles(_)
CountFiles(blocks) ==
    IF blocks = <<>> THEN 0 ELSE Len(Head(blocks).files) + CountFiles(Tail(blocks))

C11_SavedCountsRecords ==
    Saved =>
       LET out  == OutBlocks
           last == log[Len(log)]
       IN  /\ last.text = "Saved todo sections"
           /\ last.chan = "stdout"
           /\ last.about = Len(todos)
           /\ out.ok
           /\ last.about = CountFiles(out.got)
           /\ \A m \in 1..(Len(log) - 1) : log[m].text # "Saved todo sections"

\* a saved run whose records hold more todo lines than there are records
C11_Witness ==
    /\ Saved
    /\ Len(todos) = 2
    /\ CountTodos(todos) > Len(todos)
    /\ log[Len(log)].about = 2

(***************************************************************************)
(* C12: a run writes at most one file, open_todos.md directly under the    *)
(* root: every step leaves every other place under the root as it was      *)
(* (notes, other files, directories, the open_todos.md of a subdirectory), *)
(* adds no entry but <root>/open_todos.md, and a run opens a file for      *)
(* writing at most once, whatever its outcome.  The one other effect on    *)
(* the file system is the cache directory the packaged tool makes in the   *)
(* user's home, which is a directory and not under the root.               *)
(***************************************************************************)
C12_OnlyOutputWritten ==
    [][/\ \A i \in Slots \ {OutSlot} : fs'[i] = fs[i]
       /\ Without(listing', {OutSlot}) = Without(listing, {OutSlot})
       /\ wopens' <= 1
       /\ fs'[OutSlot] # fs[OutSlot] => (wopens = 0 /\ wopens' = 1)
       /\ impl = "script" => cache_dir' = cache_dir]_vars

\* a run has written its output beside a note it could not read, a note with
\* todos and the open_todos.md of a subdirectory
C12_Witness ==
    /\ Saved
    /\ wopens = 1
    /\ fs[PlaceOf(<<Work>>, FILENAME_TODOS)] = File(TextTodos)
    /\ \E i, j \in SlotsIn(yielded) : fs[i] = File(TextTodos) /\ fs[j].st # "ok"

(***************************************************************************)
(* C13: the per-file read errors go to a channel that is not the channel   *)
(* of the status messages ('Saved ...', 'No todos found ...'), in the      *)
(* packaged tool and in the root-level script.                             *)
(***************************************************************************)
StatusTexts == {"Saved todo sections", "No todos found in the specified path"}

C13_ErrorChannelDistinct ==
    \A e, m \in 1..Len(log) :
       (log[e].text = "Error reading" /\ log[m].text \in StatusTexts)
          => log[e].chan # log[m].chan

(***************************************************************************)
(* C14: for every record, folder is the name of the directory that holds   *)
(* the source file (one path component, never a path) and filename is the  *)
(* base name of the file with its extension; neither depends on what the   *)
(* file holds.  The records are those of the yielded notes that hold a     *)
(* marker, in the order yielded.                                           *)
(***************************************************************************)
\* the name of the directory the user's path denotes: n, however it is
\* reached; "." and ".." are no names
RootName == <<"n">>

\* the name of the directory that holds the entry at a place
ParentName(i) ==
    IF EntryPool[i].dir = <<>> THEN RootName ELSE EntryPool[i].dir[Len(EntryPool[i].dir)]

\* the places of the yielded notes that hold a marker, in the order yielded
RECURSIVE Sources(_)
Sources(cands) ==
    IF cands = <<>> THEN <<>>
    ELSE (IF fs[Head(cands).slot].st = "ok" /\ HasMarker(fs[Head(cands).slot].text)
          THEN <<Head(cands).slot>> ELSE <<>>) \o Sources(Tail(cands))

C14_FolderIsParentName ==
    pc = "save" =>
       LET src == Sources(yielded)
       IN  /\ Len(todos) = Len(src)
           /\ \A k \in 1..Len(todos) :
                 /\ todos[k].filename = EntryPool[src[k]].name
                 /\ todos[k].folder = ParentName(src[k])
                 /\ \A c \in 1..Len(todos[k].folder) : todos[k].folder[c] # "/"

(***************************************************************************)
(* C15: the todos of a record are the lines of the file that hold the      *)
(* marker, one for one and in the order of the file, each without its      *)
(* leading and trailing whitespace and otherwise as it stands in the file: *)
(* none is dropped, doubled or moved, and each still holds '* [ ]'.        *)
(***************************************************************************)
\* t is the line l without the whitespace at its two ends
TrimOf(l, t) ==
    /\ t # <<>>
    /\ ~IsSpace(t[1])
    /\ ~IsSpace(t[Len(t)])
    /\ \E a \in 1..Len(l) :
          /\ a + Len(t) - 1 <= Len(l)
          /\ \A i \in 1..Len(t) : l[a + i - 1] = t[i]
          /\ \A i \in 1..(a - 1) : IsSpace(l[i])
          /\ \A i \in (a + Len(t))..Len(l) : IsSpace(l[i])

C15_TodosVerbatim ==
    (pc = "save" /\ fs[NoteSlot].st = "ok") =>
       LET ls     == ReadLines(fs[NoteSlot].text)
           marked == {i \in 1..Len(ls) : HasMarker(ls[i])}
       IN  \A r \in 1..Len(todos) :
              /\ Len(todos[r].todos) = Cardinality(marked)
              /\ \A k \in 1..Len(todos[r].todos) :
                    /\ TrimOf(ls[Nth(marked, k)], todos[r].todos[k])
                    /\ HasMarker(todos[r].todos[k])

\* the note with the same todo on two lines has been parsed: both are kept,
\* in place, and the blanks inside the third todo are kept
C15_Witness ==
    /\ pc = "save"
    /\ fs[NoteSlot].text = TextTwice
    /\ Len(todos) = 1
    /\ todos[1].todos =
          << <<"*", " ", "[", " ", "]", " ", "a">>,
             <<"*", " ", "[", " ", "]", " ", "a">>,
             <<"*", " ", "[", " ", "]", " ", " ", "b", " ", " ", "c">> >>

(***************************************************************************)
(* C16: within one folder block the records stand in the order in which    *)
(* they arrived (the order of the traversal, not that of the file names):  *)
(* if r comes before s in the list and both have the same folder, the      *)
(* heading of r comes before the heading of s.                             *)
(***************************************************************************)
\* the lines of ls that are the heading of this folder
FolderLines(ls, folder) == {p \in 1..Len(ls) : ls[p] = <<"#", " ">> \o folder \o LF}

\* the lines of ls that are the heading of this record's file inside the
\* block of its folder: after the folder's heading, no other folder's
\* heading in between
HeadingLines(ls, rec) ==
    {q \in 1..Len(ls) :
        /\ ls[q] = <<"#", "#", " ">> \o rec.filename \o LF
        /\ \E p \in FolderLines(ls, rec.folder) :
              /\ p < q
              /\ \A m \in (p + 1)..(q - 1) : ~StartsWith(ls[m], <<"#", " ">>)}

C16_ArrivalOrderInFolder ==
    Saved =>
       LET ls == ReadLines(fs[OutSlot].text)
       IN  /\ \A r \in 1..Len(todos) : Cardinality(HeadingLines(ls, todos[r])) = 1
           /\ \A r, s \in 1..Len(todos) :
                 (r < s /\ todos[r].folder = todos[s].folder)
                    => \A q \in HeadingLines(ls, todos[r]) :
                          \A u \in HeadingLines(ls, todos[s]) : q < u

\* b.md was met before a.md in the folder Work, and the output is written
C16_Witness ==
    /\ Saved
    /\ \E r, s \in 1..Len(todos) :
          /\ r < s
          /\ todos[r].folder = Work /\ todos[s].folder = Work
          /\ todos[r].filename = NameB /\ todos[s].filename = NameA

(***************************************************************************)
(* C17: when records were found and the write went through, what           *)
(* <root>/open_todos.md holds is the serialization of this run's records   *)
(* and nothing else, whatever it held before the run (nothing, an older    *)
(* text, the output of an earlier run).                                    *)
(***************************************************************************)
C17_OutputIsSerialization ==
    Saved =>
       /\ todos # <<>>
       /\ fs[OutSlot].st = "ok"
       /\ \/ /\ impl = "pkg"
             /\ fs[OutSlot].text = WriteLines(TodoExtractor_format_todos(todos))
          \/ /\ impl = "script"
             /\ \E o \in Orders(FolderSet(todos)) :
                   fs[OutSlot].text = WriteLines(format_todos(todos, o))

\* a first run has written its output over an open_todos.md that was there
\* before it: the file is listed behind another entry of the root, where
\* only the tree the run started on can have it
C17_Witness ==
    /\ Saved
    /\ run = "first"
    /\ listing[1] # OutSlot
    /\ EntryPool[listing[1]].dir = <<>>
    /\ fs[OutSlot].text # TextTodos

(***************************************************************************)
(* C18: get_clipboard_text returns the clipboard text without its leading  *)
(* and trailing whitespace when the clipboard holds a character that is    *)
(* not whitespace; when the clipboard is empty, holds only whitespace, or  *)
(* reading it raises, the process ends with status 1 and nothing is        *)
(* returned.                                                               *)
(***************************************************************************)
\* the clipboard holds text with a character that is not whitespace
NonBlank(clip) == clip.st = "text" /\ \E i \in 1..Len(clip.text) : ~IsSpace(clip.text[i])

C18_ClipboardText ==
    pc # "start" =>
       IF NonBlank(clipboard)
       THEN /\ pc = "returned"
            /\ exit = Running
            /\ Len(returned) = 1
            /\ TrimOf(clipboard.text, returned[1])
       ELSE /\ pc = "done"
            /\ exit = 1
            /\ returned = <<>>

\* a text with whitespace at both ends and inside has been returned trimmed
C18_Witness ==
    /\ pc = "returned"
    /\ clipboard = ClipText(<<" ", "a", "\t", "a">>)
    /\ returned = << <<"a", "\t", "a">> >>

(***************************************************************************)
(* C19: format_file_size(n) gives n / 1024^k with one decimal and the k-th *)
(* of the units B, KB, MB, GB, where k is the number of times n can be     *)
(* divided by 1024 before it drops below 1024; from 1024^4 on it gives     *)
(* n / 1024^4 in TB.  "With one decimal" is read as: a nearest number with *)
(* one decimal.                                                            *)
(***************************************************************************)
\* how often n can be divided by 1024 before it drops below 1024
TimesDivisible(digits) == Len(digits) - 1

UnitNames == <<"B", "KB", "MB", "GB", "TB">>

\* r is n / 1024^k to the nearest tenth, where the last k digits of n are
\* its fraction
NearestTenth(digits, k, r) ==
    LET whole == IntVal(SubSeq(digits, 1, Len(digits) - k))
        x     == TimesTen(SubSeq(digits, Len(digits) - k + 1, Len(digits)))
        over  == (r.whole * 10 + r.tenth) - (whole * 10 + x.c)
    IN  /\ r.tenth \in 0..9
        /\ \/ over = 0 /\ HalfOf(x.d) \in {"below", "half"}
           \/ over = 1 /\ HalfOf(x.d) \in {"above", "half"}

C19_FileSize ==
    pc = "returned" =>
       LET k == IF TimesDivisible(size_bytes) < 4 THEN TimesDivisible(size_bytes) ELSE 4
       IN  /\ Len(returned) = 1
           /\ returned[1].unit = UnitNames[k + 1]
           /\ NearestTenth(size_bytes, k, returned[1])

\* 1024^4 + 1024^4 / 4 bytes, past the last unit of the loop, have been
\* rendered as 1.2 TB: 1.25 is as near to 1.3
C19_Witness ==
    /\ pc = "returned"
    /\ size_bytes = <<1, 256, 0, 0, 0>>
    /\ returned = <<[whole |-> 1, tenth |-> 2, unit |-> "TB"]>>

(***************************************************************************)
(* C20: the output file is opened for writing only when every candidate    *)
(* has been opened and parsed and the whole serialization of the records   *)
(* stands in memory; once the file has been opened for writing the run     *)
(* reads no note; and a run whose write was refused or failed ends         *)
(* without the message 'Saved N todo sections' in its output.              *)
(***************************************************************************)
\* the step opens open_todos.md for writing
OpensForWriting == wopens' = wopens + 1

\* the serialization of the records is what formatted_todos holds
SerializationBuilt ==
    /\ todos # <<>>
    /\ \/ impl = "pkg" /\ formatted = TodoExtractor_format_todos(todos)
       \/ impl = "script" /\ \E o \in Orders(FolderSet(todos)) :
                                formatted = format_todos(todos, o)

\* the messages 'Saved N todo sections' among msgs
SavedMessages(msgs) == {i \in 1..Len(msgs) : msgs[i].text = "Saved todo sections"}

C20_WriteAfterScan ==
    [][/\ OpensForWriting =>
             /\ pc = "write"
             /\ {opened[i] : i \in 1..Len(opened)} = SlotsIn(yielded)
             /\ yielded = (IF impl = "pkg"
                           THEN TodoExtractor_walk_through_notes(PathParts(notes_path),
                                                                 listing)
                           ELSE walk_through_notes(notes_path, listing))
             /\ SerializationBuilt
       /\ (wopens > 0 /\ run' = run) => (opened' = opened /\ todos' = todos)
       /\ wresult' \in {"refused", "failed"} =>
             /\ pc' = "done" /\ exit' # 0
             /\ SavedMessages(log') = {}]_vars

\* a run that opened a note it could not read and a note with todos has
\* ended on a write that failed after the open
C20_Witness ==
    /\ pc = "done"
    /\ wresult = "failed"
    /\ wopens = 1
    /\ Len(opened) >= 2
    /\ todos # <<>>
    /\ \E i \in SlotsIn(yielded) : fs[i].st # "ok"
    /\ log[Len(log)].text = "Error saving todos"

(***************************************************************************)
(* C21: the Scanner is complete: every regular file under the root, at any *)
(* depth, whose name ends in .md and is not open_todos.md is yielded       *)
(* exactly once per run, under a path that names it.                       *)
(***************************************************************************)
\* the places that hold a regular file with the name of a note
NoteFiles ==
    {i \in Slots : /\ fs[i].st \notin {"absent", "dir"}
                   /\ EntryPool[i].kind = "file"
                   /\ EndsWith(EntryPool[i].name, MARKDOWN_EXTENSION)
                   /\ EntryPool[i].name # FILENAME_TODOS}

\* the parts of a candidate's path, whichever implementation holds it
PartsOf(cand) == IF impl = "pkg" THEN cand.path ELSE PathParts(cand.path)

C21_ScannerComplete ==
    pc = "save" =>
       \A i \in NoteFiles :
          LET at == {k \in 1..Len(yielded) : yielded[k].slot = i}
          IN  /\ Cardinality(at) = 1
              /\ \A k \in at :
                    PartsOf(yielded[k])
                       = PathParts(notes_path) \o EntryPool[i].dir \o <<EntryPool[i].name>>

\* a scan has yielded three notes: one two directories down, and one the
\* user may not open
C21_Witness ==
    /\ pc = "save"
    /\ Cardinality(NoteFiles) = 3
    /\ \E i \in NoteFiles : Len(EntryPool[i].dir) = 2
    /\ \E i \in NoteFiles : fs[i].st = "oserror"
    /\ Len(yielded) >= 3

(***************************************************************************)
(* C22: end to end, the written open_todos.md holds each line with the     *)
(* marker of each readable candidate note exactly once, as its trimmed     *)
(* text, under the heading of its own file and folder, and holds no todo   *)
(* line and no file block that does not come from such a note.             *)
(***************************************************************************)
\* the candidates that read as text and hold a line with the marker
Sourced == {i \in SlotsIn(yielded) : fs[i].st = "ok" /\ MarkerLines(fs[i].text) # {}}

\* the file blocks of the output, each with the folder it stands under
RECURSIVE FileBlocks(_)
FileBlocks(blocks) ==
    IF blocks = <<>> THEN <<>>
    ELSE [k \in 1..Len(Head(blocks).files) |->
             [folder   |-> Head(blocks).folder,
              filename |-> Head(blocks).files[k].filename,
              todos    |-> Head(blocks).files[k].todos]]
         \o FileBlocks(Tail(blocks))

C22_EndToEnd ==
    Saved =>
       LET out == OutBlocks
           fbs == FileBlocks(out.got)
       IN  /\ out.ok
           /\ Len(fbs) = Cardinality(Sourced)
           /\ \A i \in Sourced :
                 LET ls     == ReadLines(fs[i].text)
                     marked == {k \in 1..Len(ls) : HasMarker(ls[k])}
                     mine   == {b \in 1..Len(fbs) : /\ fbs[b].folder = FolderOf(i)
                                                     /\ fbs[b].filename = EntryPool[i].name}
                 IN  /\ Cardinality(mine) = 1
                     /\ \A b \in mine :
                           /\ Len(fbs[b].todos) = Cardinality(marked)
                           /\ \A k \in 1..Len(fbs[b].todos) :
                                 TrimOf(ls[Nth(marked, k)], fbs[b].todos[k])

\* the script has written the todos of two notes of different folders that
\* stood beside a note it could not read
C22_Witness ==
    /\ Saved
    /\ impl = "script"
    /\ Cardinality(Sourced) = 2
    /\ \E i, j \in Sourced : FolderOf(i) # FolderOf(j)
    /\ \E i \in SlotsIn(yielded) : fs[i].st # "ok"

(***************************************************************************)
(* C23: every path the Scanner yields is a regular file: a directory whose *)
(* name ends in .md is never yielded as a candidate and never gives a      *)
(* per-file read error, in the packaged tool and in the root-level script. *)
(***************************************************************************)
C23_OnlyRegularFiles ==
    /\ \A k \in 1..Len(yielded) :
          /\ EntryPool[yielded[k].slot].kind = "file"
          /\ fs[yielded[k].slot].st # "dir"
    /\ \A m \in 1..Len(log) :
          log[m].text = "Error reading" => fs[log[m].about].st # "dir"

(***************************************************************************)
(* C24: on every finite tree a run terminates, and it ends in exactly one  *)
(* of four outcomes: a fatal error about the root path, 'No todos found'   *)
(* without a write, the output written and reported, or a fatal error of   *)
(* the write; and no candidate file is parsed more than once on the way.   *)
(***************************************************************************)
LastText == IF log = <<>> THEN "" ELSE log[Len(log)].text

RootPathTexts ==
    {"Invalid value for 'NOTES_PATH'", "Directory does not exist",
     "Path is not a directory", "Path does not exist"}

OutcomeRootError ==
    /\ exit \in {1, 2} /\ LastText \in RootPathTexts
    /\ yielded = <<>> /\ opened = <<>> /\ wopens = 0

OutcomeNoTodos ==
    /\ exit = 0 /\ LastText = "No todos found in the specified path"
    /\ todos = <<>> /\ wopens = 0

OutcomeWritten ==
    /\ exit = 0 /\ LastText = "Saved todo sections"
    /\ wopens = 1 /\ wresult = "ok" /\ fs[OutSlot].st = "ok"

OutcomeWriteError ==
    /\ exit = 1 /\ LastText = "Error saving todos"
    /\ wopens = 1 /\ wresult \in {"refused", "failed"}

Outcomes == <<OutcomeRootError, OutcomeNoTodos, OutcomeWritten, OutcomeWriteError>>

ParsedAtMostOnce == \A a, b \in 1..Len(opened) : a # b => opened[a] # opened[b]

C24_Terminates ==
    /\ <>(pc = "done")
    /\ [](pc = "done" => Cardinality({o \in 1..4 : Outcomes[o]}) = 1)
    /\ [](pc = "done" <=> exit # Running)
    /\ []ParsedAtMostOnce

\* a run over two candidates, one of them not readable, has ended on a
\* write error
C24_Witness ==
    /\ pc = "done"
    /\ OutcomeWriteError
    /\ Len(opened) = 2
    /\ \E i \in SlotsIn(yielded) : fs[i].st # "ok"

(***************************************************************************)
(* C25: grouping is by folder name only: the output never holds two        *)
(* heading lines '# <folder>' for the same folder name, every record       *)
(* stands under exactly one folder heading, that of its own folder, and    *)
(* two notes that lie in different directories of the same name stand      *)
(* under one shared heading.                                               *)
(***************************************************************************)
\* the lines of ls that are a folder heading
AllFolderLines(ls) ==
    {p \in 1..Len(ls) : StartsWith(ls[p], <<"#", " ">>)}

\* the lines of ls that are the heading of a file of this name
FileLines(ls, filename) ==
    {q \in 1..Len(ls) : ls[q] = <<"#", "#", " ">> \o filename \o LF}

\* the records with this folder and file name
Named(folder, filename) ==
    {r \in 1..Len(todos) : todos[r].folder = folder /\ todos[r].filename = filename}

C25_GroupedByName ==
    Saved =>
       LET ls == ReadLines(fs[OutSlot].text)
       IN  /\ \A f \in FolderSet(todos) : Cardinality(FolderLines(ls, f)) = 1
           /\ Cardinality(AllFolderLines(ls)) = Cardinality(FolderSet(todos))
           /\ \A r \in 1..Len(todos) :
                 /\ Cardinality(HeadingLines(ls, todos[r]))
                       = Cardinality(Named(todos[r].folder, todos[r].filename))
                 /\ Cardinality(FileLines(ls, todos[r].filename))
                       = Cardinality({s \in 1..Len(todos) :
                                         todos[s].filename = todos[r].filename})
           /\ \A i, j \in Sourced :
                 FolderOf(i) = FolderOf(j)
                    => \E p \in FolderLines(ls, FolderOf(i)) :
                          \A q \in FileLines(ls, EntryPool[i].name)
                                      \cup FileLines(ls, EntryPool[j].name) :
                             (\E r \in RecordsFor(i) \cup RecordsFor(j) :
                                 q \in HeadingLines(ls, todos[r]))
                                => /\ p < q
                                   /\ \A m \in (p + 1)..(q - 1) :
                                         ~StartsWith(ls[m], <<"#", " ">>)

\* the root is named Work and holds a.md and the directory Work with b.md:
\* both notes gave a record of the folder Work, and the output is written
C25_Witness ==
    /\ Saved
    /\ notes_path = Work
    /\ \E i, j \in Sourced :
          /\ EntryPool[i].dir = <<>> /\ EntryPool[j].dir = <<Work>>
          /\ EntryPool[i].name = NameA /\ EntryPool[j].name = NameB
    /\ FolderSet(todos) = {Work}
    /\ Len(todos) = 2

(***************************************************************************)
(* C26: on the same tree the root-level script (get_todos_from_path) and   *)
(* the packaged module (TodoExtractor.get_all_todos) produce the same      *)
(* collection of records: the same folder, filename and todos for the same *)
(* files, in whatever order.                                               *)
(***************************************************************************)
\* what each implementation returns for the tree and the path of this run
PackageRecords ==
    TodoExtractor_get_all_todos(
        TodoExtractor_walk_through_notes(PathParts(notes_path), listing), fs, NoTodos).todos

ScriptRecords ==
    get_todos_from_path(walk_through_notes(notes_path, listing), fs, NoTodos).todos

\* how often each record occurs in a list
Occurrences(recs) ==
    [r \in {recs[k] : k \in 1..Len(recs)} |->
        Cardinality({k \in 1..Len(recs) : recs[k] = r})]

C26_SameRecords ==
    pc = "save" =>
       /\ todos = (IF impl = "pkg" THEN PackageRecords ELSE ScriptRecords)
       /\ Occurrences(PackageRecords) = Occurrences(ScriptRecords)

(***************************************************************************)
(* C27: the serialization can be read back without ambiguity: of the lists *)
(* of records in ascending order of folder, with todos that are non-empty  *)
(* lists of trimmed lines holding the marker and with names without a line *)
(* break, no two different ones are given the same output by format_todos, *)
(* also when a todo line starts with '# ' or '## '.                        *)
(***************************************************************************)
\* the lists the claim speaks of have the shape it names
WellFormed(recs) ==
    /\ \A k \in 1..(Len(recs) - 1) : ~StrLess(recs[k + 1].folder, recs[k].folder)
    /\ \A k \in 1..Len(recs) :
          /\ recs[k].todos # <<>>
          /\ \A j \in 1..Len(recs[k].todos) :
                /\ HasMarker(recs[k].todos[j])
                /\ TrimOf(recs[k].todos[j], recs[k].todos[j])
                /\ ~Contains(recs[k].todos[j], LF)
          /\ ~Contains(recs[k].folder, LF)
          /\ ~Contains(recs[k].filename, LF)

C27_Unambiguous ==
    /\ WellFormed(todos)
    /\ pc = "returned" =>
          /\ formatted = TodoExtractor_format_todos(todos)
          /\ \A other \in FormatInputs :
                (WellFormed(other) /\ TodoExtractor_format_todos(other) = formatted)
                   => other = todos

\* format_todos has returned the output of two records of the folder
\* '* [ ]', the first with the todo '# * [ ]', the second of the file
\* '* [ ]' with the todo '## * [ ]'
C27_Witness ==
    /\ pc = "returned"
    /\ Len(todos) = 2
    /\ todos[1].folder = TODO_IDENTIFIER /\ todos[2].folder = TODO_IDENTIFIER
    /\ todos[1].todos = <<<<"#", " ">> \o TODO_IDENTIFIER>>
    /\ todos[2].filename = TODO_IDENTIFIER
    /\ todos[2].todos = <<<<"#", "#", " ">> \o TODO_IDENTIFIER>>
    /\ Len(formatted) = 8

(***************************************************************************)
(* C28: get_ticket_info fetches with retry logic: when the JIRA call       *)
(* raises, the fetch is attempted again, up to settings.max_retries        *)
(* attempts in total, before an error is handed to process_ticket.         *)
(***************************************************************************)
\* process_ticket has been handed an error: it has printed one of its two
\* error messages
ErrorHanded ==
    \E m \in 1..Len(log) :
       log[m].text \in {"Error fetching ticket", "Failed to fetch ticket information"}

C28_FetchRetried ==
    impl = "jira" =>
       /\ (calls # <<>> /\ calls[Len(calls)] # "ok" /\ Len(calls) < max_retries)
             => pc = "retry"
       /\ ErrorHanded => Len(calls) >= max_retries

(***************************************************************************)
(* C29: run_command executes the command at most settings.max_retries      *)
(* times: it returns at the first successful attempt without running the   *)
(* command again, and when every attempt fails the last error is raised    *)
(* again, so that run_say_command and run_ffmpeg_command report the        *)
(* failure and exit with status 1 only after the attempts are exhausted.   *)
(* As amended: the command is executed at least once, and at most          *)
(* settings.max_retries times when that is 1 or more.                      *)
(***************************************************************************)
CommandPrograms == {"say", "say -o", "ffmpeg"}

\* the wrapper has printed its failure message
FailureReported ==
    \E m \in 1..Len(log) : log[m].text \in {"TTS failed", "Audio conversion failed"}

\* what run_command does within a limit of attempts
RunsWithin(limit) ==
    impl \in CommandPrograms =>
       /\ Len(calls) <= limit
       /\ \A k \in 1..(Len(calls) - 1) : calls[k] # "ok"
       /\ pc = "returned" <=> (calls # <<>> /\ calls[Len(calls)] = "ok")
       /\ (exit = 1 \/ FailureReported) =>
             /\ pc = "done"
             /\ Len(calls) = limit
             /\ \A k \in 1..Len(calls) : calls[k] # "ok"
             /\ FailureReported <=> calls[Len(calls)] = "CalledProcessError"

Polishers == {"openai", "ollama"}

\* what a step of a polisher does, within a limit of attempts
PolishStep(limit) ==
    impl \in Polishers =>
       /\ Len(calls') <= limit
       /\ copied' # copied =>
             /\ copied = <<>>
             /\ Len(calls') = Len(calls) + 1
             /\ calls'[Len(calls')] = "ok"
             /\ returned' = <<copied'[1]>>
             /\ \E r \in Responses : copied'[1] = Strip(r)
       /\ clipboard' # clipboard =>
             /\ copied' # copied
             /\ clipboard' = ClipText(copied'[1])
       /\ (pc = "start" /\ ClipboardTry(clipboard).raised # "") =>
             /\ pc' = "done"
             /\ calls' = <<>>
             /\ copied' = <<>>
       /\ pc' = "done" =>
             /\ (\A k \in 1..Len(calls') : calls'[k] # "ok") => copied' = <<>>
             /\ (\E k \in 1..Len(calls') : calls'[k] = "ok") =>
                   /\ Len(copied') = 1
                   /\ calls'[Len(calls')] = "ok"

\* the claim as it stands
C30_CopyOnlyAfterPolish == [][PolishStep(max_retries)]_vars

\* the amended claim
C30_CopyOnlyAfterPolishOrOne ==
    [][PolishStep(IF max_retries >= 1 THEN max_retries ELSE 1)]_vars

\* with max_retries = 3 the third attempt has answered "b\n", and b is on
\* the clipboard, which held " a\n"
C30_Witness ==
    /\ impl = "openai"
    /\ max_retries = 3
    /\ calls = <<"raised", "raised", "ok">>
    /\ copied = << <<"b">> >>
    /\ clipboard = ClipText(<<"b">>)
    /\ exit = 0

====
